---- MODULE Spec2Model ----
\* Job orchestration of the document OCR annotation system: the Job table
\* (jobs/models.py, jobs/services.py), the HTTP handlers that create, retry
\* and cancel jobs (jobs/views.py), the RQ queue they enqueue into
\* (jobs/queue.py) and the worker function run_record_ocr_job (jobs/tasks.py).
\*
\* Every handler and the worker function work on a Django model instance: a
\* private copy of the row read by Job.objects.get, written back column by
\* column with save(update_fields=[...]).  The model keeps that copy (field
\* `job` of a request or of a worker) apart from the stored row (`jobs`), and
\* takes one step per write to the database or the queue (a read is part of
\* the step of the write it leads to when nothing can tell the difference),
\* so that every interleaving of requests and workers the deployment allows
\* is a behaviour.
\* The column updated_at (rewritten by every save) is not modelled.
\*
\* The second part is the box-level pipeline run_item_reocr_job
\* (jobs/tasks.py) with the label file it reads and writes
\* (records/services.py load_annotations, save_annotations) and the editor's
\* PUT of the same file (records/views.py); its behaviours are ReocrSpec.
EXTENDS Integers, Naturals, Sequences, FiniteSets, TLC

\* ---------------------------------------------------------------- bounds
MaxJobs == 1
MaxEntries == 2
MaxReqs == 2
NumWorkers == 2
MaxPages == 2

\* ------------------------------------------------------------- constants
Null == 0
NoRef == 0

PENDING == "pending"
RUNNING == "running"
FINISHED == "finished"
FAILED == "failed"
CANCELED == "canceled"
Status == {PENDING, RUNNING, FINISHED, FAILED, CANCELED}
Terminal == {FINISHED, FAILED, CANCELED}

JobIds == 1 .. MaxJobs
ReqIds == 1 .. MaxReqs

Max(a, b) == IF a >= b THEN a ELSE b
Min(a, b) == IF a <= b THEN a ELSE b

VARIABLES
  jobs,      \* the Job table: job id -> stored row
  queue,     \* the RQ queue "ocr": sequence of entries, entry id = position
  worker,    \* per queue entry: the worker function's frame
  req,       \* per HTTP connection: the handler's frame
  pages,     \* number of page images of the record (none, or MaxPages)
  labels,    \* pages of the record that have a label JSON file
  artifact   \* the label JSON file of the item that is recognised box by box

\* the files of the workspace
fs == <<pages, labels, artifact>>

vars == <<jobs, queue, worker, req, fs>>

\* ------------------------------------------------------------ Job model
\* Job(...) with the column defaults of the model.
NewJob ==
  [ workspace_slug |-> "ws", record_slug |-> "rec", record_title |-> "Rec",
    job_type |-> "ocr", status |-> PENDING, progress |-> 0,
    rq_job_id |-> NoRef, error_message |-> "",
    payload |-> [set |-> FALSE, pages |-> 0, total_detections |-> 0],
    started_at |-> Null, finished_at |-> Null ]

mark_running(job, t) ==
  IF job.status # RUNNING
  THEN [job EXCEPT !.status = RUNNING,
                   !.started_at = IF job.started_at = Null THEN t ELSE @]
  ELSE job

mark_finished(job, t) ==
  [job EXCEPT !.status = FINISHED, !.progress = 100, !.finished_at = t]

\* the message not stored
mark_failed_without_message(job, message, t) ==
  [job EXCEPT !.status = FAILED, !.finished_at = t]

mark_failed(job, message, t) ==
  [job EXCEPT !.status = FAILED,
              !.error_message = IF message # "" THEN message ELSE @,
              !.finished_at = t]

\* job.save(update_fields=fields): only the named columns of the row are
\* overwritten with the instance's values.
Save(row, job, fields) ==
  [f \in DOMAIN row |-> IF f \in fields THEN job[f] ELSE row[f]]

\* An instance of which only the columns `cols` are read by the statements
\* still to come: the others are kept at their defaults.
Live(job, cols) ==
  [f \in DOMAIN job |-> IF f \in cols THEN job[f] ELSE NewJob[f]]

\* the lower limit forgotten
ClampProgressUpperOnly(progress) == Min(progress, 100)
ClampProgress(progress) == Max(0, Min(progress, 100))

\* update_job_progress: the instance after the assignment.
update_job_progress(job, progress) ==
  [job EXCEPT !.progress = ClampProgress(progress)]

\* --------------------------------------------------------------- queue
QUEUED == "queued"
DEFERRED == "deferred"
STARTED == "started"
Entries == 1 .. Len(queue)

IdleWorker ==
  [ pc |-> "idle", job |-> NewJob, index |-> 0, total |-> 0, items |-> 0,
    ocr_results_count |-> 0, engine_calls |-> 0, exc |-> "" ]

\* resp is the HTTP status of the response, body the "status" of the job in
\* its JSON ("" for an error response).
IdleReq == [ kind |-> "none", pc |-> "idle", id |-> 0, job |-> NewJob,
             rq |-> NoRef, resp |-> 0, body |-> "" ]

\* timezone.now() for a value that is about to replace `held`.  Timestamps
\* are only tested for being null and for having changed, so the clock is
\* modelled by what matters of it: the value written is not null and is
\* never the value it replaces.
now(held) == IF held = 1 THEN 2 ELSE 1

\* queue.enqueue(run_record_ocr_job, str(job.id), ...): a new entry with a
\* fresh id, status queued.
Enqueue(j) ==
  /\ queue' = Append(queue, [job |-> j, func |-> "run_record_ocr_job",
                             status |-> QUEUED])
  /\ worker' = Append(worker, IdleWorker)

\* load_annotations when the label file does not exist: no shapes, no
\* metadata.
NoFile == [exists |-> FALSE, shapes |-> << >>, metadata |-> << >>]

Init ==
  /\ jobs = << >>
  /\ queue = << >>
  /\ worker = << >>
  /\ req = [r \in ReqIds |-> IdleReq]
  /\ pages \in {0, MaxPages}
  /\ labels = {}
  /\ artifact = NoFile

\* ------------------------------------------------- HTTP: POST /api/v1/jobs
\* A new request is served by the first connection that is free (which one
\* serves it has no effect on what the handler does).
Free(r) ==
  /\ req[r].pc = "idle"
  /\ \A q \in 1 .. r - 1 : req[q].pc # "idle"

\* queue.enqueue(run_record_ocr_job, str(job.id), ...) of jobs_collection and
\* of job_retry, reached by request r for job j.  It adds the entry, or it
\* raises (Redis unreachable): the handlers have no try/except around it, the
\* request ends with a 500 and the handler writes nothing more.
ReqEnqueue(r, kind, j) ==
  \/ /\ Len(queue) < MaxEntries
     /\ Enqueue(j)
     /\ req' = [req EXCEPT ![r] = [IdleReq EXCEPT !.kind = kind, !.id = j,
                  !.pc = "save_ref", !.rq = Len(queue) + 1]]
  \/ /\ req' = [req EXCEPT ![r] = [IdleReq EXCEPT !.kind = kind, !.id = j,
                  !.pc = "done", !.resp = 500]]
     /\ UNCHANGED <<queue, worker>>

\* jobs_collection, POST branch: create_job inserts the row with the column
\* defaults (status pending, progress 0, no rq_job_id), then the enqueue.
\* Until rq_job_id is saved nothing can tell the entry belongs to the row, so
\* insert and enqueue are one step.
SubmitCreate(r) ==
  /\ Free(r)
  /\ Len(jobs) < MaxJobs
  /\ jobs' = Append(jobs, NewJob)
  /\ ReqEnqueue(r, "submit", Len(jobs) + 1)
  /\ UNCHANGED fs

\* job_type = payload.get("job_type") or "ocr": the tags a request may
\* carry.  "reocr" stands for any tag other than the default.
JobTypes == {"ocr", "reocr"}

\* jobs_collection, POST branch, for a request whose body names a job_type.
SubmitCreateAs(r, job_type) ==
  /\ Free(r)
  /\ Len(jobs) < MaxJobs
  /\ jobs' = Append(jobs, [NewJob EXCEPT !.job_type = job_type])
  /\ ReqEnqueue(r, "submit", Len(jobs) + 1)
  /\ UNCHANGED fs

\* job.save() without update_fields: every column of the instance is written
ReqSaveRefAllColumns(r) ==
  /\ req[r].pc = "save_ref"
  /\ LET job == [req[r].job EXCEPT !.rq_job_id = req[r].rq]
     IN /\ jobs' = [jobs EXCEPT ![req[r].id] = Save(@, job, DOMAIN job)]
        /\ req' = [req EXCEPT ![r].job = Live(job, {}), ![r].rq = NoRef,
                     ![r].pc = "done", ![r].body = job.status,
                     ![r].resp = IF req[r].kind = "submit" THEN 201 ELSE 200]
  /\ UNCHANGED <<queue, worker, fs>>

\* job.rq_job_id = rq_job.id; job.save(update_fields=["rq_job_id", ...]).
ReqSaveRef(r) ==
  /\ req[r].pc = "save_ref"
  /\ LET job == [req[r].job EXCEPT !.rq_job_id = req[r].rq]
     IN /\ jobs' = [jobs EXCEPT ![req[r].id] = Save(@, job, {"rq_job_id"})]
        /\ req' = [req EXCEPT ![r].job = Live(job, {}), ![r].rq = NoRef,
                     ![r].pc = "done", ![r].body = job.status,
                     ![r].resp = IF req[r].kind = "submit" THEN 201 ELSE 200]
  /\ UNCHANGED <<queue, worker, fs>>

\* The response has been sent; the connection serves the next request.
ReqReturn(r) ==
  /\ req[r].pc = "done"
  /\ req' = [req EXCEPT ![r] = IdleReq]
  /\ UNCHANGED <<jobs, queue, worker, fs>>

\* ------------------------------------- HTTP: POST /api/v1/jobs/<id>/retry
\* a pending job taken for retryable
RetryAllowedWithPending == {FAILED, CANCELED, FINISHED, PENDING}
RetryAllowed == {FAILED, CANCELED, FINISHED}
\* progress left out of update_fields
RetryFieldsNoProgress ==
  {"status", "error_message", "started_at", "finished_at"}
RetryFields ==
  {"status", "error_message", "progress", "started_at", "finished_at"}

\* job_retry: get_job and the status test on the instance just read; when
\* the test passes the instance's fields are reset (not yet saved).
RetryGet(r, j) ==
  /\ Free(r)
  /\ j \in DOMAIN jobs
  /\ IF jobs[j].status \notin RetryAllowed
     THEN req' = [req EXCEPT ![r] = [IdleReq EXCEPT !.kind = "retry",
                    !.pc = "done", !.id = j, !.resp = 400]]
     ELSE req' = [req EXCEPT ![r] = [IdleReq EXCEPT !.kind = "retry",
                    !.pc = "reset", !.id = j,
                    !.job = Live([jobs[j] EXCEPT !.status = PENDING,
                               !.error_message = "", !.progress = 0,
                               !.started_at = Null, !.finished_at = Null],
                               RetryFields)]]
  /\ UNCHANGED <<jobs, queue, worker, fs>>

\* the job stored as a job of the default type when it is retried
RetryResetAsDefault(r) ==
  /\ req[r].pc = "reset"
  /\ jobs' = [jobs EXCEPT ![req[r].id] =
                Save(@, [req[r].job EXCEPT !.job_type = "ocr"],
                     RetryFields \cup {"job_type"})]
  /\ ReqEnqueue(r, "retry", req[r].id)
  /\ UNCHANGED fs

\* job.save(update_fields=["status", "error_message", "progress",
\*                         "started_at", "finished_at", "updated_at"]),
\* then the enqueue (one step for the reason given at SubmitCreate).
RetryReset(r) ==
  /\ req[r].pc = "reset"
  /\ jobs' = [jobs EXCEPT ![req[r].id] = Save(@, req[r].job, RetryFields)]
  /\ ReqEnqueue(r, "retry", req[r].id)
  /\ UNCHANGED fs

\* ------------------------------------ HTTP: POST /api/v1/jobs/<id>/cancel
\* a failed job taken for cancelable
CancelableWithFailed == {PENDING, RUNNING, FAILED}
Cancelable == {PENDING, RUNNING}
\* a started entry canceled in the queue as well
RqCancelableWithStarted == {QUEUED, DEFERRED, STARTED}
RqCancelable == {QUEUED, DEFERRED}

\* queue.fetch_job(id): the entries Redis may answer with.  Redis drops a
\* finished entry when its result TTL runs out, so a finished entry is found
\* or not (NoRef stands for None).
FetchJob(id) ==
  IF id \notin Entries THEN {NoRef}
  ELSE IF queue[id].status = FINISHED THEN {id, NoRef}
  ELSE {id}

\* job_cancel up to the save: get_job, the status test on the instance just
\* read and, if job.rq_job_id, fetch_job and rq_job.cancel() for an entry that
\* is queued or deferred.
CancelGet(r, j) ==
  /\ Free(r)
  /\ j \in DOMAIN jobs
  /\ IF jobs[j].status \notin Cancelable
     THEN /\ req' = [req EXCEPT ![r] = [IdleReq EXCEPT !.kind = "cancel",
                       !.pc = "done", !.id = j, !.resp = 200,
                       !.body = jobs[j].status]]
          /\ UNCHANGED queue
     ELSE /\ req' = [req EXCEPT ![r] = [IdleReq EXCEPT !.kind = "cancel",
                       !.pc = "save", !.id = j]]
          /\ IF jobs[j].rq_job_id # NoRef
             THEN \E rq_job \in FetchJob(jobs[j].rq_job_id) :
                    IF rq_job # NoRef /\ queue[rq_job].status \in RqCancelable
                    THEN queue' = [queue EXCEPT ![rq_job].status = CANCELED]
                    ELSE UNCHANGED queue
             ELSE UNCHANGED queue
  /\ UNCHANGED <<jobs, worker, fs>>

\* the save made only if the stored status is still pending or running
CancelSaveIfActive(r) ==
  /\ req[r].pc = "save"
  /\ LET job == [req[r].job EXCEPT !.status = CANCELED,
                    !.finished_at = now(jobs[req[r].id].finished_at)]
     IN /\ jobs' = [jobs EXCEPT ![req[r].id] =
                      IF @.status \in {PENDING, RUNNING}
                      THEN Save(@, job, {"status", "finished_at"}) ELSE @]
        /\ req' = [req EXCEPT ![r].job = Live(job, {}), ![r].pc = "done",
                                ![r].resp = 200, ![r].body = job.status]
  /\ UNCHANGED <<queue, worker, fs>>

\* finished_at left out of update_fields
CancelSaveStatusOnly(r) ==
  /\ req[r].pc = "save"
  /\ LET job == [req[r].job EXCEPT !.status = CANCELED,
                    !.finished_at = now(jobs[req[r].id].finished_at)]
     IN /\ jobs' = [jobs EXCEPT ![req[r].id] = Save(@, job, {"status"})]
        /\ req' = [req EXCEPT ![r].job = Live(job, {}), ![r].pc = "done",
                                ![r].resp = 200, ![r].body = job.status]
  /\ UNCHANGED <<queue, worker, fs>>

\* job.status = CANCELED; job.finished_at = timezone.now();
\* job.save(update_fields=["status", "finished_at", "updated_at"]).
CancelSave(r) ==
  /\ req[r].pc = "save"
  /\ LET job == [req[r].job EXCEPT !.status = CANCELED,
                    !.finished_at = now(jobs[req[r].id].finished_at)]
     IN /\ jobs' = [jobs EXCEPT ![req[r].id] =
                      Save(@, job, {"status", "finished_at"})]
        /\ req' = [req EXCEPT ![r].job = Live(job, {}), ![r].pc = "done",
                                ![r].resp = 200, ![r].body = job.status]
  /\ UNCHANGED <<queue, worker, fs>>

\* ------------------------------------------------------------ RQ runtime
\* an entry taken only while its job is still pending
WorkerPickupIfPending(e) ==
  /\ e \in Entries
  /\ queue[e].status = QUEUED
  /\ jobs[queue[e].job].status = PENDING
  /\ \A d \in 1 .. e - 1 : queue[d].status # QUEUED
  /\ Cardinality({d \in Entries : queue[d].status = STARTED}) < NumWorkers
  /\ queue' = [queue EXCEPT ![e].status = STARTED]
  /\ worker' = [worker EXCEPT ![e].pc = "get"]
  /\ UNCHANGED <<jobs, req, fs>>

\* A worker process takes the oldest queued entry and starts executing it.
WorkerPickup(e) ==
  /\ e \in Entries
  /\ queue[e].status = QUEUED
  /\ \A d \in 1 .. e - 1 : queue[d].status # QUEUED
  /\ Cardinality({d \in Entries : queue[d].status = STARTED}) < NumWorkers
  /\ queue' = [queue EXCEPT ![e].status = STARTED]
  /\ worker' = [worker EXCEPT ![e].pc = "get"]
  /\ UNCHANGED <<jobs, req, fs>>

\* ------------------------------------------------- run_record_ocr_job
Running(e) == e \in Entries /\ queue[e].status = STARTED

\* str(exc) of what OCRService.run_ocr may raise
EngineErrors == {"engine error", ""}

\* job = Job.objects.get(pk=job_id)
WorkerGet(e) ==
  /\ Running(e) /\ worker[e].pc = "get"
  /\ worker' = [worker EXCEPT
       ![e].job = Live(jobs[queue[e].job],
                       {"status", "started_at", "error_message"}),
       ![e].pc = "mark_running"]
  /\ UNCHANGED <<jobs, queue, req, fs>>

\* mark_job_running(job)
mark_job_running(e) ==
  /\ Running(e) /\ worker[e].pc = "mark_running"
  /\ LET job == mark_running(worker[e].job,
                             now(jobs[queue[e].job].started_at))
     IN /\ jobs' = [jobs EXCEPT ![queue[e].job] =
                      Save(@, job, {"status", "started_at"})]
        /\ worker' = [worker EXCEPT ![e].job = Live(job, {"error_message"}),
                                    ![e].pc = "get_workspace"]
  /\ UNCHANGED <<queue, req, fs>>

\* get_workspace(workspace_slug) and items = list(iter_items(...));
\* total = max(len(items), 1).  The directories are there, or the workspace
\* is not and get_workspace raises WorkspaceError inside the inner try.
\* (A record directory that is gone makes iter_items raise outside the inner
\* try: the path an engine error on the first page takes.)
WorkerListItems(e) ==
  /\ Running(e) /\ worker[e].pc = "get_workspace"
  /\ \/ worker' = [worker EXCEPT ![e].items = pages,
                                 ![e].total = Max(pages, 1),
                                 ![e].pc = IF pages = 0 THEN "mark_finished"
                                           ELSE "run_ocr"]
     \/ worker' = [worker EXCEPT ![e].exc = "workspace not found",
                                 ![e].pc = "mark_failed_inner"]
  /\ UNCHANGED <<jobs, queue, req, fs>>

\* The pairs (index, total), total up to 130, for which the double
\* index / total * 100 is just below the integer it stands for:
\* 29 / 50 * 100 is 57.99999999999999, 29 / 100 * 100 is 28.999999999999996.
\* For every other pair of that range int() of the double is the floor of
\* the exact quotient.
RoundsBelow == {<<29, 50>>, <<29, 100>>, <<57, 100>>, <<58, 100>>}

\* int(index / total * 100), index / total and its product with 100 being
\* doubles
PageProgress(index, total) ==
  IF <<index, total>> \in RoundsBelow
  THEN (index * 100) \div total - 1
  ELSE (index * 100) \div total

\* len(ocr_result['detections']) for the image of page p: the engine is
\* stateless, the same image gives the same detections (page p has p - 1).
Detections(p) == p - 1

\* a page whose engine call raises is passed over and the loop goes on
WorkerPageSkipsFailure(e) ==
  /\ Running(e) /\ worker[e].pc = "run_ocr"
  /\ \/ LET index == worker[e].index + 1
            progress == PageProgress(index, worker[e].total)
            job == update_job_progress(
                     [worker[e].job EXCEPT !.progress = progress], progress)
        IN /\ labels' = labels \cup {index}
           /\ jobs' = [jobs EXCEPT ![queue[e].job] =
                         Save(@, job, {"progress"})]
           /\ worker' = [worker EXCEPT
                ![e].index = index,
                ![e].engine_calls = @ + 1,
                ![e].ocr_results_count = @ + Detections(index),
                ![e].job = Live(job, {"error_message"}),
                ![e].pc = IF index < worker[e].items
                          THEN "run_ocr" ELSE "mark_finished"]
     \/ \E text \in EngineErrors :
          /\ worker' = [worker EXCEPT
               ![e].index = @ + 1,
               ![e].engine_calls = @ + 1,
               ![e].exc = text,
               ![e].pc = IF worker[e].index + 1 < worker[e].items
                         THEN "run_ocr" ELSE "mark_finished"]
          /\ UNCHANGED <<jobs, labels>>
  /\ UNCHANGED <<queue, req, pages, artifact>>

\* the count of the last page kept, not the running count
WorkerPageLastCount(e) ==
  /\ Running(e) /\ worker[e].pc = "run_ocr"
  /\ \/ LET index == worker[e].index + 1
            progress == PageProgress(index, worker[e].total)
            job == update_job_progress(
                     [worker[e].job EXCEPT !.progress = progress], progress)
        IN /\ labels' = labels \cup {index}
           /\ jobs' = [jobs EXCEPT ![queue[e].job] =
                         Save(@, job, {"progress"})]
           /\ worker' = [worker EXCEPT
                ![e].index = index,
                ![e].engine_calls = @ + 1,
                ![e].ocr_results_count = Detections(index),
                ![e].job = Live(job, {"error_message"}),
                ![e].pc = IF index < worker[e].items
                          THEN "run_ocr" ELSE "mark_finished"]
     \/ \E text \in EngineErrors :
          /\ worker' = [worker EXCEPT ![e].engine_calls = @ + 1,
                                      ![e].exc = text,
                                      ![e].pc = "mark_failed"]
          /\ UNCHANGED <<jobs, labels>>
  /\ UNCHANGED <<queue, req, pages, artifact>>

\* One turn of the page loop: OCRService.run_ocr(image_path) returns the
\* detections, the label JSON of the page is written and
\*   progress = int(index / total * 100); job.progress = progress;
\*   update_job_progress(job, progress=progress)
\* stores the progress; or the engine raises.  Nothing reads the label files
\* in between, so the turn is one step.
WorkerPage(e) ==
  /\ Running(e) /\ worker[e].pc = "run_ocr"
  /\ \/ LET index == worker[e].index + 1
            progress == PageProgress(index, worker[e].total)
            job == update_job_progress(
                     [worker[e].job EXCEPT !.progress = progress], progress)
        IN /\ labels' = labels \cup {index}
           /\ jobs' = [jobs EXCEPT ![queue[e].job] =
                         Save(@, job, {"progress"})]
           /\ worker' = [worker EXCEPT
                ![e].index = index,
                ![e].engine_calls = @ + 1,
                ![e].ocr_results_count = @ + Detections(index),
                ![e].job = Live(job, {"error_message"}),
                ![e].pc = IF index < worker[e].items
                          THEN "run_ocr" ELSE "mark_finished"]
     \/ \E text \in EngineErrors :
          /\ worker' = [worker EXCEPT ![e].engine_calls = @ + 1,
                                      ![e].exc = text,
                                      ![e].pc = "mark_failed"]
          /\ UNCHANGED <<jobs, labels>>
  /\ UNCHANGED <<queue, req, pages, artifact>>

\* mark_job_finished(job); job.payload = {...};
\* job.save(update_fields=["payload", ...]); return: RQ records the entry as
\* finished.  The two saves write different columns and no code reads
\* payload, so they are one step.
mark_job_finished(e) ==
  /\ Running(e) /\ worker[e].pc = "mark_finished"
  /\ LET job == [mark_finished(worker[e].job,
                     now(jobs[queue[e].job].finished_at)) EXCEPT !.payload =
                   [set |-> TRUE, pages |-> worker[e].items,
                    total_detections |-> worker[e].ocr_results_count]]
     IN jobs' = [jobs EXCEPT ![queue[e].job] =
                   Save(@, job, {"status", "progress", "finished_at",
                                 "payload"})]
  /\ worker' = [worker EXCEPT ![e] = [IdleWorker EXCEPT !.pc = "returned"]]
  /\ queue' = [queue EXCEPT ![e].status = FINISHED]
  /\ UNCHANGED <<req, fs>>

\* mark_job_failed(job, message=str(exc)) in the handler of WorkspaceError,
\* followed by raise, which the outer handler catches.
WorkerFailInner(e) ==
  /\ Running(e) /\ worker[e].pc = "mark_failed_inner"
  /\ LET job == mark_failed(worker[e].job, worker[e].exc,
                            now(jobs[queue[e].job].finished_at))
     IN /\ jobs' = [jobs EXCEPT ![queue[e].job] =
                      Save(@, job, {"status", "error_message", "finished_at"})]
        /\ worker' = [worker EXCEPT ![e].job = Live(job, {"error_message"}),
                                    ![e].pc = "mark_failed"]
  /\ UNCHANGED <<queue, req, fs>>

\* mark_job_failed(job, message=str(exc)) in the outer handler, then raise:
\* the exception reaches RQ, which records the entry as failed.
mark_job_failed(e) ==
  /\ Running(e) /\ worker[e].pc = "mark_failed"
  /\ LET job == mark_failed(worker[e].job, worker[e].exc,
                            now(jobs[queue[e].job].finished_at))
     IN jobs' = [jobs EXCEPT ![queue[e].job] =
                   Save(@, job, {"status", "error_message", "finished_at"})]
  /\ worker' = [worker EXCEPT ![e] = [IdleWorker EXCEPT !.pc = "raised"]]
  /\ queue' = [queue EXCEPT ![e].status = FAILED]
  /\ UNCHANGED <<req, fs>>

\* The steps of the worker that executes entry e, from the pick-up to the
\* return or the raise.
WorkerStep(e) ==
  \/ WorkerPickup(e)
  \/ WorkerGet(e)
  \/ mark_job_running(e)
  \/ WorkerListItems(e)
  \/ WorkerPage(e)
  \/ mark_job_finished(e)
  \/ WorkerFailInner(e)
  \/ mark_job_failed(e)

\* ------------------------------------------------------------------ Next
Next ==
  \/ \E r \in ReqIds : SubmitCreate(r)
  \/ \E r \in ReqIds : ReqSaveRef(r)
  \/ \E r \in ReqIds : ReqReturn(r)
  \/ \E r \in ReqIds, j \in JobIds : RetryGet(r, j)
  \/ \E r \in ReqIds : RetryReset(r)
  \/ \E r \in ReqIds, j \in JobIds : CancelGet(r, j)
  \/ \E r \in ReqIds : CancelSave(r)
  \/ \E e \in 1 .. MaxEntries : WorkerPickup(e)
  \/ \E e \in 1 .. MaxEntries : WorkerGet(e)
  \/ \E e \in 1 .. MaxEntries : mark_job_running(e)
  \/ \E e \in 1 .. MaxEntries : WorkerListItems(e)
  \/ \E e \in 1 .. MaxEntries : WorkerPage(e)
  \/ \E e \in 1 .. MaxEntries : mark_job_finished(e)
  \/ \E e \in 1 .. MaxEntries : WorkerFailInner(e)
  \/ \E e \in 1 .. MaxEntries : mark_job_failed(e)

Spec == Init /\ [][Next]_vars

\* The system when the submit requests name a job_type.
TypedNext ==
  \/ \E r \in ReqIds, job_type \in JobTypes : SubmitCreateAs(r, job_type)
  \/ \E r \in ReqIds : ReqSaveRef(r)
  \/ \E r \in ReqIds : ReqReturn(r)
  \/ \E r \in ReqIds, j \in JobIds : RetryGet(r, j)
  \/ \E r \in ReqIds : RetryReset(r)
  \/ \E r \in ReqIds, j \in JobIds : CancelGet(r, j)
  \/ \E r \in ReqIds : CancelSave(r)
  \/ \E e \in 1 .. MaxEntries : WorkerPickup(e)
  \/ \E e \in 1 .. MaxEntries : WorkerGet(e)
  \/ \E e \in 1 .. MaxEntries : mark_job_running(e)
  \/ \E e \in 1 .. MaxEntries : WorkerListItems(e)
  \/ \E e \in 1 .. MaxEntries : WorkerPage(e)
  \/ \E e \in 1 .. MaxEntries : mark_job_finished(e)
  \/ \E e \in 1 .. MaxEntries : WorkerFailInner(e)
  \/ \E e \in 1 .. MaxEntries : mark_job_failed(e)

TypedSpec == Init /\ [][TypedNext]_vars

\* The system when requests arrive one at a time (a request is taken up when
\* no other is in flight; the workers run alongside as before).
NextSerial ==
  \/ SubmitCreate(1)
  \/ ReqSaveRef(1)
  \/ ReqReturn(1)
  \/ \E j \in JobIds : RetryGet(1, j)
  \/ RetryReset(1)
  \/ \E j \in JobIds : CancelGet(1, j)
  \/ CancelSave(1)
  \/ \E e \in 1 .. MaxEntries : WorkerPickup(e)
  \/ \E e \in 1 .. MaxEntries : WorkerGet(e)
  \/ \E e \in 1 .. MaxEntries : mark_job_running(e)
  \/ \E e \in 1 .. MaxEntries : WorkerListItems(e)
  \/ \E e \in 1 .. MaxEntries : WorkerPage(e)
  \/ \E e \in 1 .. MaxEntries : mark_job_finished(e)
  \/ \E e \in 1 .. MaxEntries : WorkerFailInner(e)
  \/ \E e \in 1 .. MaxEntries : mark_job_failed(e)

\* That system with the scheduling RQ gives: a queued entry that a worker can
\* take is taken, and a worker function that has started runs on (the worker
\* does not crash, every engine call returns or raises).  No request is
\* bound to arrive or, once taken up, to be served to its end.
FairSpec ==
  Init /\ [][NextSerial]_vars
       /\ \A e \in 1 .. MaxEntries : WF_vars(WorkerStep(e))


\* ------------------------------------------- one run of run_record_ocr_job
\* The system from the state a served POST /api/v1/jobs leaves (the row
\* inserted, its entry queued, rq_job_id saved) when no further request
\* arrives: the worker function over records of up to MaxRecordPages pages.
MaxRecordPages == 50

RecordInit ==
  /\ jobs = << [NewJob EXCEPT !.rq_job_id = 1] >>
  /\ queue = << [job |-> 1, func |-> "run_record_ocr_job",
                  status |-> QUEUED] >>
  /\ worker = << IdleWorker >>
  /\ req = [r \in ReqIds |-> IdleReq]
  /\ pages \in 0 .. MaxRecordPages
  /\ labels = {}
  /\ artifact = NoFile

RecordNext ==
  \/ \E e \in 1 .. MaxEntries : WorkerPickup(e)
  \/ \E e \in 1 .. MaxEntries : WorkerGet(e)
  \/ \E e \in 1 .. MaxEntries : mark_job_running(e)
  \/ \E e \in 1 .. MaxEntries : WorkerListItems(e)
  \/ \E e \in 1 .. MaxEntries : WorkerPage(e)
  \/ \E e \in 1 .. MaxEntries : mark_job_finished(e)
  \/ \E e \in 1 .. MaxEntries : WorkerFailInner(e)
  \/ \E e \in 1 .. MaxEntries : mark_job_failed(e)

RecordSpec == RecordInit /\ [][RecordNext]_vars


\* ============================================ box-level re-recognition
\* run_item_reocr_job (jobs/tasks.py): the text of every box the user has
\* drawn on one page is recognised again.  Nothing under jobs/ enqueues the
\* function; the model starts from the state its caller leaves: the Job row
\* created, the queue entry that names the function queued.
\*
\* Coordinates are kept in half pixels (the point <<3, 5>> is (1.5, 2.5)),
\* so that floor and ceil have something to round; scores are kept in
\* hundredths (95 is 0.95, -100 is -1.0).
BATCH_LIMIT == 16
rotations == <<0, 90, 180, 270>>

\* rgb_image.size of the page image
ImageWidth == 8
ImageHeight == 8

\* float("inf") as a coordinate (json.loads reads Infinity and 1e999 as
\* it, json.dump writes it back)
Infinity == 1000000

\* math.floor and math.ceil of a finite coordinate
Floor(c) == c \div 2
Ceil(c) == (c + 1) \div 2

\* _normalize_shape_points: the entries that are pairs of numbers.
_normalize_shape_points(points) ==
  SelectSeq(points, LAMBDA point : Len(point) >= 2)

\* None of Optional[Tuple[int, int, int, int]]
NoBox == << >>
\* math.floor and math.ceil raise OverflowError for an infinite coordinate
OverflowError == <<-1>>

_compute_bbox(points, width, height) ==
  IF points = << >> THEN NoBox
  ELSE IF \E i \in DOMAIN points : Infinity \in {points[i][1], points[i][2]}
  THEN OverflowError
  ELSE LET xs == {points[i][1] : i \in DOMAIN points}
           ys == {points[i][2] : i \in DOMAIN points}
           min_x == Max(Floor(CHOOSE x \in xs : \A o \in xs : x <= o), 0)
           min_y == Max(Floor(CHOOSE y \in ys : \A o \in ys : y <= o), 0)
           max_x == Min(Ceil(CHOOSE x \in xs : \A o \in xs : x >= o), width)
           max_y == Min(Ceil(CHOOSE y \in ys : \A o \in ys : y >= o), height)
       IN IF max_x - min_x < 2 \/ max_y - min_y < 2 THEN NoBox
          ELSE <<min_x, min_y, max_x, max_y>>

\* ------------------------------------------------- recognition engine
\* One result of recognizer.predict: the dict {"rec_text": ...,
\* "rec_score": ...}.  rec_text "" stands for a text that is empty or
\* missing; scored tells whether the dict has a number under rec_score.
Result(text, score) == [rec_text |-> text, scored |-> TRUE, rec_score |-> score]
Unscored(text) == [rec_text |-> text, scored |-> FALSE, rec_score |-> 0]

\* None of Optional[str]
NoText == ""

\* _extract_text_confidence, _from_dict:
\*   text = res_block.get("rec_text") or res_block.get("text")
\*   score = res_block.get("rec_score") or res_block.get("confidence") or ...
\* `or` passes over an empty text and over a score of 0.0: both come out
\* as None.
_extract_text_confidence(result) ==
  [ text |-> result.rec_text,
    confidence |-> IF result.scored /\ result.rec_score # 0
                   THEN [set |-> TRUE, v |-> result.rec_score]
                   ELSE [set |-> FALSE, v |-> 0] ]

\* best_results.get(shape_index, (None, -1.0))
BestOf(best_results, shape_index) ==
  IF shape_index \in DOMAIN best_results THEN best_results[shape_index]
  ELSE [text |-> NoText, score |-> -100]

\* The loop of _flush_batch over zip(batch_meta, results).
RECURSIVE FlushResults(_, _, _)
FlushResults(batch_meta, results, best_results) ==
  IF batch_meta = << >> \/ results = << >> THEN best_results
  ELSE LET shape_index == Head(batch_meta)[1]
           ex == _extract_text_confidence(Head(results))
           score == IF ex.confidence.set THEN ex.confidence.v ELSE -100
           best_score == BestOf(best_results, shape_index).score
       IN FlushResults(Tail(batch_meta), Tail(results),
            IF ex.text # NoText /\ score > best_score
            THEN (shape_index :> [text |-> ex.text, score |-> score])
                   @@ best_results
            ELSE best_results)

\* What is written in the page image, by the box it is cropped from: the
\* engine's answers to the crop turned by 0, 90, 180 and 270 degrees.  The
\* engine is stateless: the same crop gets the same answers.
PageText(bbox) ==
  CASE bbox = <<0, 0, 2, 2>> ->
         <<Result("", 10), Result("T2", 95), Result("", 0), Result("T4", 95)>>
    [] bbox = <<2, 0, 4, 2>> ->
         <<Result("TA", 90), Result("Tx", 30), Result("Tx", 30),
           Result("Tx", 30)>>
    [] bbox = <<6, 0, 8, 2>> ->
         <<Unscored("TU"), Result("TZ", 0), Unscored("TU"), Unscored("TU")>>
    [] bbox = <<0, 2, 2, 4>> ->
         <<Result("", 40), Result("TN", -50), Unscored(""), Unscored("")>>
    [] OTHER ->
         <<Result("", 0), Result("", 0), Result("", 0), Result("", 0)>>

\* _prepare_rec_input(rotated): the input made of the crop of one box turned
\* by rotations[rotation_idx], kept as the pair of the box and the rotation.
_prepare_rec_input(bbox, rotation_idx) == <<bbox, rotation_idx>>

\* recognizer.predict(batch_inputs): one result per input, in input order.
predict(batch_inputs) ==
  [i \in DOMAIN batch_inputs |->
     PageText(batch_inputs[i][1])[batch_inputs[i][2]]]

\* The rotation loop of one shape: each rotated crop is appended to
\* batch_inputs and its (shape_index, rotation_idx) to batch_meta, and the
\* batch is flushed as soon as it holds BATCH_LIMIT inputs.  st is the
\* record of batch_inputs, batch_meta, best_results, calls (the size of
\* every batch handed to the engine so far) and passed (the inputs handed
\* to the engine so far, in order).  crops gives the box each shape index
\* is cropped from.
\* the batch flushed only when it has grown past BATCH_LIMIT
RECURSIVE AppendRotationsLate(_, _, _, _)
AppendRotationsLate(st, shape_index, rotation_idx, crops) ==
  IF rotation_idx > Len(rotations) THEN st
  ELSE LET inputs == Append(st.batch_inputs,
                      _prepare_rec_input(crops[shape_index], rotation_idx))
           meta == Append(st.batch_meta, <<shape_index, rotation_idx>>)
       IN AppendRotationsLate(
            IF Len(inputs) > BATCH_LIMIT
            THEN [batch_inputs |-> << >>,
                  batch_meta |-> << >>,
                  best_results |->
                    FlushResults(meta, predict(inputs), st.best_results),
                  calls |-> Append(st.calls, Len(inputs)),
                  passed |-> st.passed \o inputs]
            ELSE [st EXCEPT !.batch_inputs = inputs, !.batch_meta = meta],
            shape_index, rotation_idx + 1, crops)

\* a flush that clears batch_inputs and leaves batch_meta as it is
RECURSIVE AppendRotationsMetaKept(_, _, _, _)
AppendRotationsMetaKept(st, shape_index, rotation_idx, crops) ==
  IF rotation_idx > Len(rotations) THEN st
  ELSE LET inputs == Append(st.batch_inputs,
                      _prepare_rec_input(crops[shape_index], rotation_idx))
           meta == Append(st.batch_meta, <<shape_index, rotation_idx>>)
       IN AppendRotationsMetaKept(
            IF Len(inputs) >= BATCH_LIMIT
            THEN [batch_inputs |-> << >>,
                  batch_meta |-> meta,
                  best_results |->
                    FlushResults(meta, predict(inputs), st.best_results),
                  calls |-> Append(st.calls, Len(inputs)),
                  passed |-> st.passed \o inputs]
            ELSE [st EXCEPT !.batch_inputs = inputs, !.batch_meta = meta],
            shape_index, rotation_idx + 1, crops)

RECURSIVE AppendRotations(_, _, _, _)
AppendRotations(st, shape_index, rotation_idx, crops) ==
  IF rotation_idx > Len(rotations) THEN st
  ELSE LET inputs == Append(st.batch_inputs,
                      _prepare_rec_input(crops[shape_index], rotation_idx))
           meta == Append(st.batch_meta, <<shape_index, rotation_idx>>)
       IN AppendRotations(
            IF Len(inputs) >= BATCH_LIMIT
            THEN [batch_inputs |-> << >>,
                  batch_meta |-> << >>,
                  best_results |->
                    FlushResults(meta, predict(inputs), st.best_results),
                  calls |-> Append(st.calls, Len(inputs)),
                  passed |-> st.passed \o inputs]
            ELSE [st EXCEPT !.batch_inputs = inputs, !.batch_meta = meta],
            shape_index, rotation_idx + 1, crops)

\* --------------------------------------------------- annotation store
\* str(value) of a metadata value ("" for None)
Str(value) ==
  IF value.kind = "none" THEN [kind |-> "str", s |-> ""]
  ELSE [kind |-> "str", s |-> value.s]

\* _normalize_metadata_values
_normalize_metadata_values(values) ==
  [key \in DOMAIN values |-> Str(values[key])]

\* A JSON number, and a value float() does not take (null, a list)
Num(v) == [kind |-> "num", v |-> v]
NotNum == [kind |-> "none"]

\* dict.get(key, default)
Get(dict, key, default) == IF key \in DOMAIN dict THEN dict[key] ELSE default

DEFAULT_SHAPE_LABEL == "text"
\* None as the confidence of a shape
NoConfidence == -1000
\* f"shape-{index}" and f"annotation-{index}" where ids are numbers
DefaultShapeId(index) == 200 + index
DefaultAnnotationId(index) == 100 + index

\* _shapes_to_annotations: a shape becomes the rectangle around its points;
\* a shape without a pair of numbers among its points is left out.  index
\* counts from 0 as enumerate does.
RECURSIVE ShapesToAnnotations(_, _)
ShapesToAnnotations(shapes, i) ==
  IF i > Len(shapes) THEN << >>
  ELSE LET shape == shapes[i]
           index == i - 1
           numeric_points == _normalize_shape_points(shape.points)
           xs == {numeric_points[k][1] : k \in DOMAIN numeric_points}
           ys == {numeric_points[k][2] : k \in DOMAIN numeric_points}
           min_x == CHOOSE x \in xs : \A o \in xs : x <= o
           max_x == CHOOSE x \in xs : \A o \in xs : x >= o
           min_y == CHOOSE y \in ys : \A o \in ys : y <= o
           max_y == CHOOSE y \in ys : \A o \in ys : y >= o
       IN IF numeric_points = << >>
          THEN ShapesToAnnotations(shapes, i + 1)
          ELSE << [id |-> IF Get(shape, "id", 0) # 0 THEN shape.id
                          ELSE DefaultShapeId(index),
                   text |-> Get(shape, "text", ""),
                   label |-> IF Get(shape, "label", "") # ""
                             THEN shape.label ELSE DEFAULT_SHAPE_LABEL,
                   x |-> Num(min_x), y |-> Num(min_y),
                   width |-> Num(max_x - min_x),
                   height |-> Num(max_y - min_y),
                   order |-> Get(shape, "order", index)] >>
               \o ShapesToAnnotations(shapes, i + 1)

_shapes_to_annotations(shapes) == ShapesToAnnotations(shapes, 1)

\* _annotations_to_shapes: an annotation becomes the polygon of the four
\* corners of its rectangle; an annotation with a coordinate float() does
\* not take is left out.
RECURSIVE AnnotationsToShapes(_, _)
AnnotationsToShapes(annotations, i) ==
  IF i > Len(annotations) THEN << >>
  ELSE LET annotation == annotations[i]
           index == i - 1
           x == Get(annotation, "x", Num(0))
           y == Get(annotation, "y", Num(0))
           width == Get(annotation, "width", Num(0))
           height == Get(annotation, "height", Num(0))
           text == Get(annotation, "text", "")
       IN IF \E c \in {x, y, width, height} : c.kind # "num"
          THEN AnnotationsToShapes(annotations, i + 1)
          ELSE << [id |-> IF Get(annotation, "id", 0) # 0 THEN annotation.id
                          ELSE DefaultAnnotationId(index),
                   label |-> IF Get(annotation, "label", "") # ""
                             THEN annotation.label
                             ELSE IF text # "" THEN text
                             ELSE DEFAULT_SHAPE_LABEL,
                   text |-> text,
                   points |-> << <<x.v, y.v>>, <<x.v + width.v, y.v>>,
                                 <<x.v + width.v, y.v + height.v>>,
                                 <<x.v, y.v + height.v>> >>,
                   confidence |-> Get(annotation, "confidence", NoConfidence),
                   order |-> Get(annotation, "order", index)] >>
               \o AnnotationsToShapes(annotations, i + 1)

_annotations_to_shapes(annotations) == AnnotationsToShapes(annotations, 1)

\* load_annotations: the payload of the label file (no shapes and no
\* metadata when the file does not exist).  The shapes are those of the
\* file; a file that has none and has "annotations", the format of earlier
\* versions, gives the shapes made of them.
load_annotations(file) ==
  LET shapes == Get(file, "shapes", << >>)
  IN [shapes |-> IF "annotations" \in DOMAIN file /\ shapes = << >>
                 THEN _annotations_to_shapes(file.annotations)
                 ELSE shapes,
      metadata |-> _normalize_metadata_values(Get(file, "metadata", << >>))]

\* the shapes written as the polygons of their annotations
save_annotations_via_annotations(existing, data) ==
  [exists |-> TRUE,
   shapes |-> _annotations_to_shapes(_shapes_to_annotations(data.shapes)),
   metadata |-> IF data.has_metadata
                THEN _normalize_metadata_values(data.metadata)
                ELSE _normalize_metadata_values(existing.metadata)]


\* the metadata of the file not kept when data has none
save_annotations_without_metadata(existing, data) ==
  [exists |-> TRUE,
   shapes |-> data.shapes,
   metadata |-> IF data.has_metadata
                THEN _normalize_metadata_values(data.metadata)
                ELSE << >>]

\* save_annotations(workspace, item_id, data), the file it writes, given the
\* payload `existing` it loaded when data has no "metadata".  The shapes of
\* data are written as they are.
save_annotations(existing, data) ==
  [exists |-> TRUE,
   shapes |-> data.shapes,
   metadata |-> IF data.has_metadata
                THEN _normalize_metadata_values(data.metadata)
                ELSE _normalize_metadata_values(existing.metadata)]

\* ------------------------------------------------------ the page's boxes
\* Bounds of the pages tried: every page of up to VariedShapes shapes drawn
\* from all of ShapeInputs, and pages of up to MaxShapes shapes (more than
\* one batch of BATCH_LIMIT inputs) whose shapes are drawn from
\* PlainShapeInputs.
MaxShapes == 9
VariedShapes == 3

\* shape["points"] of the shapes tried.  Recognised: a box that reaches
\* above and left of the image, a box inside it, a box that reaches past its
\* right edge, a box inside it, a triangle with corners on half pixels.
\* Skipped: an entry that is no pair, a box one pixel wide, a box wholly to
\* the right of the image.  Last, a box infinitely far to the right.
PlainShapeInputs ==
  { << <<4, 0>>, <<8, 4>> >>,
    << <<2, 2>>, <<4, 10>> >> }
ShapeInputs ==
  PlainShapeInputs \cup
  { << <<-3, -1>>, <<4, 4>> >>,
    << <<12, 0>>, <<19, 4>> >>,
    << <<0, 4>>, <<4, 8>> >>,
    << <<3, 5>>, <<7, 9>>, <<3, 9>> >>,
    << <<3>> >>,
    << <<20, 2>>, <<30, 10>> >>,
    << <<Infinity, 0>>, <<Infinity, 10>> >> }

\* A shape of the label file as the editor or the page-level OCR leaves it:
\* id stands for every field the pipeline passes through.
Shape(id, points) ==
  [id |-> id, points |-> points, text |-> "old", confidence |-> 50]

PageShapes ==
  UNION { { [i \in 1 .. n |-> Shape(i, pts[i])] :
              pts \in [1 .. n -> IF n <= VariedShapes THEN ShapeInputs
                                 ELSE PlainShapeInputs] } :
          n \in 0 .. MaxShapes }

\* "metadata" of a label file save_annotations has written
StoredMetadata == [note |-> [kind |-> "str", s |-> "a"]]

\* ------------------------------------------------- run_item_reocr_job
\* The frame of run_item_reocr_job.  calls, passed and saves are not
\* variables of the code: calls records the size of the batch of every
\* recognizer.predict call, passed the inputs of those calls in order,
\* saves counts the save_annotations calls.
IdleReocr ==
  [ pc |-> "idle", job |-> NewJob, shapes_raw |-> << >>, shapes |-> << >>,
    shape_entries |-> << >>, processed |-> 0,
    batch_inputs |-> << >>, batch_meta |-> << >>,
    best_results |-> << >>, calls |-> << >>, passed |-> << >>,
    saves |-> 0, recognized |-> 0,
    existing |-> load_annotations(NoFile), message |-> "", exc |-> "" ]

ReocrInit ==
  /\ jobs = <<NewJob>>
  /\ queue = <<[job |-> 1, func |-> "run_item_reocr_job", status |-> QUEUED]>>
  /\ worker = <<IdleReocr>>
  /\ req = [r \in ReqIds |-> IdleReq]
  /\ pages = MaxPages
  /\ labels = {}
  /\ artifact \in {NoFile} \cup
       { [exists |-> TRUE, shapes |-> s, metadata |-> StoredMetadata] :
           s \in PageShapes }

Reocr(e) == Running(e) /\ queue[e].func = "run_item_reocr_job"

\* job = Job.objects.get(pk=job_id); mark_job_running(job)
ReocrStart(e) ==
  /\ Reocr(e) /\ worker[e].pc = "get"
  /\ LET job == mark_running(jobs[queue[e].job],
                             now(jobs[queue[e].job].started_at))
     IN /\ jobs' = [jobs EXCEPT ![queue[e].job] =
                      Save(@, job, {"status", "started_at"})]
        /\ worker' = [worker EXCEPT ![e].job = job, ![e].pc = "load"]
  /\ UNCHANGED <<queue, req, fs>>

\* what get_workspace and get_item may raise: the message handed to
\* mark_job_failed by the inner handler, and str(exc)
LoadErrors ==
  { [message |-> "workspace not found", exc |-> "workspace not found"],
    [message |-> "page not found: no such page", exc |-> "no such page"] }

\* _compute_bbox of the valid points of a shape (NoBox when it has none)
BoxOf(shape) ==
  _compute_bbox(_normalize_shape_points(shape.points), ImageWidth, ImageHeight)

\* The first shape at which _compute_bbox raises (0: none does).
FirstRaise(shapes) ==
  LET raising == {i \in DOMAIN shapes : BoxOf(shapes[i]) = OverflowError}
  IN IF raising = {} THEN 0
     ELSE CHOOSE i \in raising : \A o \in raising : i <= o

\* The index, the points and the box of every shape that has valid points
\* and a valid box, in the order of the shape list, up to the shape at
\* which _compute_bbox raises.
ShapeEntries(shapes) ==
  LET last == IF FirstRaise(shapes) = 0 THEN Len(shapes)
              ELSE FirstRaise(shapes) - 1
      RECURSIVE Scan(_)
      Scan(i) ==
        IF i > last THEN << >>
        ELSE IF BoxOf(shapes[i]) # NoBox
             THEN <<[index |-> i,
                     points |-> _normalize_shape_points(shapes[i].points),
                     bbox |-> BoxOf(shapes[i])]>> \o Scan(i + 1)
             ELSE Scan(i + 1)
  IN Scan(1)

\* min(10 + int(processed / len(shape_entries) * 80), 90)
ShapeProgress(processed, total) == Min(10 + (processed * 80) \div total, 90)

\* From get_workspace to the end of the loop that collects shape_entries:
\* the label file is read, update_job_progress(job, progress=10) is stored
\* and the shapes are measured against the image.  get_workspace or get_item
\* raises instead, or there is nothing to recognise (ValueError), or
\* _compute_bbox raises (OverflowError).
ReocrLoad(e) ==
  /\ Reocr(e) /\ worker[e].pc = "load"
  /\ \/ \E err \in LoadErrors :
          /\ worker' = [worker EXCEPT ![e].message = err.message,
                                      ![e].exc = err.exc,
                                      ![e].pc = "mark_failed_inner"]
          /\ UNCHANGED jobs
     \/ /\ load_annotations(artifact).shapes = << >>
        /\ worker' = [worker EXCEPT ![e].exc = "no boxes on this page",
                                    ![e].pc = "mark_failed"]
        /\ UNCHANGED jobs
     \/ /\ load_annotations(artifact).shapes # << >>
        /\ LET shapes_raw == load_annotations(artifact).shapes
               job == update_job_progress(worker[e].job, 10)
               shape_entries == ShapeEntries(shapes_raw)
           IN /\ jobs' = [jobs EXCEPT ![queue[e].job] =
                            Save(@, job, {"progress"})]
              /\ worker' = [worker EXCEPT
                   ![e].job = job,
                   ![e].shapes_raw = shapes_raw,
                   ![e].shapes = shapes_raw,
                   ![e].shape_entries = shape_entries,
                   ![e].exc =
                     IF FirstRaise(shapes_raw) # 0
                     THEN "cannot convert float infinity to integer"
                     ELSE IF shape_entries = << >>
                     THEN "no valid box to recognise" ELSE "",
                   ![e].pc =
                     IF FirstRaise(shapes_raw) # 0 \/ shape_entries = << >>
                     THEN "mark_failed" ELSE "shape"]
  /\ UNCHANGED <<queue, req, fs>>

\* the box of the crop of every shape index that is in shape_entries
Crops(shape_entries) ==
  [i \in {shape_entries[k].index : k \in DOMAIN shape_entries} |->
     (CHOOSE en \in {shape_entries[k] : k \in DOMAIN shape_entries} :
        en.index = i).bbox]

\* the label file written after every shape, with the results so far
ReocrShapeSaving(e) ==
  /\ Reocr(e) /\ worker[e].pc = "shape"
  /\ LET w == worker[e]
         processed == w.processed + 1
         st == AppendRotations(
                 [batch_inputs |-> w.batch_inputs, batch_meta |-> w.batch_meta,
                  best_results |-> w.best_results, calls |-> w.calls,
                  passed |-> w.passed],
                 w.shape_entries[processed].index, 1, Crops(w.shape_entries))
         job == update_job_progress(w.job,
                  ShapeProgress(processed, Len(w.shape_entries)))
     IN \/ /\ jobs' = [jobs EXCEPT ![queue[e].job] =
                         Save(@, job, {"progress"})]
           /\ worker' = [worker EXCEPT
                ![e].job = job,
                ![e].processed = processed,
                ![e].batch_inputs = st.batch_inputs,
                ![e].batch_meta = st.batch_meta,
                ![e].best_results = st.best_results,
                ![e].calls = st.calls,
                ![e].passed = st.passed,
                ![e].saves = @ + 1,
                ![e].pc = IF processed < Len(w.shape_entries)
                          THEN "shape" ELSE "flush"]
           /\ artifact' = save_annotations(load_annotations(artifact),
                [shapes |-> [i \in DOMAIN w.shapes |->
                     IF i \in DOMAIN st.best_results
                     THEN [w.shapes[i] EXCEPT !.text = st.best_results[i].text]
                     ELSE w.shapes[i]],
                 has_metadata |-> FALSE, metadata |-> << >>])
        \/ /\ st.calls # w.calls
           /\ \E text \in EngineErrors :
                worker' = [worker EXCEPT ![e].calls = st.calls,
                                         ![e].passed = st.passed,
                                         ![e].exc = text,
                                         ![e].pc = "mark_failed"]
           /\ UNCHANGED <<jobs, artifact>>
  /\ UNCHANGED <<queue, req, pages, labels>>

\* One turn of the loop over shape_entries: the four rotated crops are
\* appended, with the flushes that fall in between, and the progress is
\* stored.  A recognizer.predict call of the turn may raise instead.
ReocrShape(e) ==
  /\ Reocr(e) /\ worker[e].pc = "shape"
  /\ LET w == worker[e]
         processed == w.processed + 1
         st == AppendRotations(
                 [batch_inputs |-> w.batch_inputs, batch_meta |-> w.batch_meta,
                  best_results |-> w.best_results, calls |-> w.calls,
                  passed |-> w.passed],
                 w.shape_entries[processed].index, 1, Crops(w.shape_entries))
         job == update_job_progress(w.job,
                  ShapeProgress(processed, Len(w.shape_entries)))
     IN \/ /\ jobs' = [jobs EXCEPT ![queue[e].job] =
                         Save(@, job, {"progress"})]
           /\ worker' = [worker EXCEPT
                ![e].job = job,
                ![e].processed = processed,
                ![e].batch_inputs = st.batch_inputs,
                ![e].batch_meta = st.batch_meta,
                ![e].best_results = st.best_results,
                ![e].calls = st.calls,
                ![e].passed = st.passed,
                ![e].pc = IF processed < Len(w.shape_entries)
                          THEN "shape" ELSE "flush"]
        \/ /\ st.calls # w.calls
           /\ \E text \in EngineErrors :
                worker' = [worker EXCEPT ![e].calls = st.calls,
                                         ![e].passed = st.passed,
                                         ![e].exc = text,
                                         ![e].pc = "mark_failed"]
           /\ UNCHANGED jobs
  /\ UNCHANGED <<queue, req, fs>>

\* The loop over best_results.items(): shapes[shape_index]["text"] = text
\* and, for a score that is not negative, ["confidence"] = score.
ApplyResults(shapes, best_results) ==
  [i \in DOMAIN shapes |->
     IF i \in DOMAIN best_results /\ best_results[i].text # NoText
     THEN [shapes[i] EXCEPT
             !.text = best_results[i].text,
             !.confidence = IF best_results[i].score >= 0
                            THEN best_results[i].score ELSE @]
     ELSE shapes[i]]

Recognized(best_results) ==
  Cardinality({i \in DOMAIN best_results : best_results[i].text # NoText})

\* The _flush_batch after the loop (no call for an empty batch), the loop
\* that writes the results into shapes, and the start of save_annotations:
\* data has no "metadata", so the label file is loaded for the metadata to
\* keep.  The engine call may raise instead.
ReocrFlush(e) ==
  /\ Reocr(e) /\ worker[e].pc = "flush"
  /\ LET w == worker[e]
         best_results ==
           IF w.batch_inputs = << >> THEN w.best_results
           ELSE FlushResults(w.batch_meta, predict(w.batch_inputs),
                             w.best_results)
         calls == IF w.batch_inputs = << >> THEN w.calls
                  ELSE Append(w.calls, Len(w.batch_inputs))
         passed == w.passed \o w.batch_inputs
     IN \/ worker' = [worker EXCEPT
             ![e].batch_inputs = IF w.batch_inputs = << >> THEN @ ELSE << >>,
             ![e].batch_meta = IF w.batch_inputs = << >> THEN @ ELSE << >>,
             ![e].best_results = best_results,
             ![e].calls = calls,
             ![e].passed = passed,
             ![e].recognized = Recognized(best_results),
             ![e].shapes = ApplyResults(w.shapes, best_results),
             ![e].existing = load_annotations(artifact),
             ![e].pc = "save"]
        \/ /\ w.batch_inputs # << >>
           /\ \E text \in EngineErrors :
                worker' = [worker EXCEPT ![e].calls = calls,
                                         ![e].passed = passed,
                                         ![e].exc = text,
                                         ![e].pc = "mark_failed"]
  /\ UNCHANGED <<jobs, queue, req, fs>>

\* a text the editor has stored since the load kept in place of the job's
SavedShapesMerged(shapes) ==
  [i \in DOMAIN shapes |->
     IF i \in DOMAIN artifact.shapes /\ artifact.shapes[i].text = "user"
     THEN [shapes[i] EXCEPT !.text = "user"] ELSE shapes[i]]

\* what save_annotations makes of {"shapes": shapes}
SavedShapes(shapes) == shapes

\* save_annotations(workspace, item_id, {"shapes": shapes}): the label file
\* is written.
ReocrSave(e) ==
  /\ Reocr(e) /\ worker[e].pc = "save"
  /\ artifact' = save_annotations(worker[e].existing,
                   [shapes |-> SavedShapes(worker[e].shapes),
                    has_metadata |-> FALSE, metadata |-> << >>])
  /\ worker' = [worker EXCEPT ![e].saves = @ + 1, ![e].pc = "progress"]
  /\ UNCHANGED <<jobs, queue, req, pages, labels>>

\* update_job_progress(job, progress=100)
ReocrProgress(e) ==
  /\ Reocr(e) /\ worker[e].pc = "progress"
  /\ LET job == update_job_progress(worker[e].job, 100)
     IN /\ jobs' = [jobs EXCEPT ![queue[e].job] = Save(@, job, {"progress"})]
        /\ worker' = [worker EXCEPT ![e].job = job, ![e].pc = "mark_finished"]
  /\ UNCHANGED <<queue, req, fs>>

\* total_boxes counted over all the shapes of the page
ReocrFinishedAllShapes(e) ==
  /\ Reocr(e) /\ worker[e].pc = "mark_finished"
  /\ LET job == [mark_finished(worker[e].job,
                     now(jobs[queue[e].job].finished_at)) EXCEPT !.payload =
                   [set |-> TRUE,
                    recognized_boxes |-> worker[e].recognized,
                    total_boxes |-> Len(worker[e].shapes)]]
     IN /\ jobs' = [jobs EXCEPT ![queue[e].job] =
                      Save(@, job, {"status", "progress", "finished_at",
                                    "payload"})]
        /\ worker' = [worker EXCEPT ![e].job = job, ![e].pc = "returned"]
  /\ queue' = [queue EXCEPT ![e].status = FINISHED]
  /\ UNCHANGED <<req, fs>>

\* mark_job_finished(job); job.payload = {...};
\* job.save(update_fields=["payload", ...]); return.
ReocrFinished(e) ==
  /\ Reocr(e) /\ worker[e].pc = "mark_finished"
  /\ LET job == [mark_finished(worker[e].job,
                     now(jobs[queue[e].job].finished_at)) EXCEPT !.payload =
                   [set |-> TRUE,
                    recognized_boxes |-> worker[e].recognized,
                    total_boxes |-> Len(worker[e].shape_entries)]]
     IN /\ jobs' = [jobs EXCEPT ![queue[e].job] =
                      Save(@, job, {"status", "progress", "finished_at",
                                    "payload"})]
        /\ worker' = [worker EXCEPT ![e].job = job, ![e].pc = "returned"]
  /\ queue' = [queue EXCEPT ![e].status = FINISHED]
  /\ UNCHANGED <<req, fs>>

\* mark_job_failed(job, message=...) in the handler around get_workspace or
\* get_item, followed by raise, which the outer handler catches.
ReocrFailInner(e) ==
  /\ Reocr(e) /\ worker[e].pc = "mark_failed_inner"
  /\ LET job == mark_failed(worker[e].job, worker[e].message,
                            now(jobs[queue[e].job].finished_at))
     IN /\ jobs' = [jobs EXCEPT ![queue[e].job] =
                      Save(@, job, {"status", "error_message", "finished_at"})]
        /\ worker' = [worker EXCEPT ![e].job = job, ![e].pc = "mark_failed"]
  /\ UNCHANGED <<queue, req, fs>>

\* mark_job_failed(job, message=str(exc)) in the outer handler, then raise.
ReocrFailed(e) ==
  /\ Reocr(e) /\ worker[e].pc = "mark_failed"
  /\ LET job == mark_failed(worker[e].job, worker[e].exc,
                            now(jobs[queue[e].job].finished_at))
     IN /\ jobs' = [jobs EXCEPT ![queue[e].job] =
                      Save(@, job, {"status", "error_message", "finished_at"})]
        /\ worker' = [worker EXCEPT ![e].job = job, ![e].pc = "raised"]
  /\ queue' = [queue EXCEPT ![e].status = FAILED]
  /\ UNCHANGED <<req, fs>>

\* ---------------------------- HTTP: PUT /api/v1/items/<id>/annotations
\* What the editor sends for the page as it is stored: the shapes with the
\* text of the first one corrected, alone or together with new metadata
\* (the number 7 as a note); for a page without shapes, the metadata.
UserMetadata == [note |-> [kind |-> "num", s |-> "7"]]
UserData ==
  IF artifact.shapes = << >>
  THEN { [shapes |-> << >>, has_metadata |-> TRUE, metadata |-> UserMetadata] }
  ELSE { [shapes |-> [artifact.shapes EXCEPT ![1].text = "user"],
          has_metadata |-> FALSE, metadata |-> << >>],
         [shapes |-> [artifact.shapes EXCEPT ![1].text = "user"],
          has_metadata |-> TRUE, metadata |-> UserMetadata] }

\* item_annotations_view, PUT: save_annotations(workspace, item_id, data).
UserSave ==
  /\ \E data \in UserData :
       artifact' = save_annotations(load_annotations(artifact), data)
  /\ UNCHANGED <<jobs, queue, worker, req, pages, labels>>

\* ------------------------------------------- a page saved as it was loaded
\* "annotations" of label files of the earlier format: an annotation with
\* all its keys, one with the keys the format requires and an empty text,
\* one whose height is null.
AnnotationInputs ==
  { [id |-> 7, text |-> "a", label |-> "title", x |-> Num(0), y |-> Num(0),
     width |-> Num(4), height |-> Num(4), confidence |-> 80, order |-> 5],
    [text |-> "", x |-> Num(2), y |-> Num(2), width |-> Num(2),
     height |-> Num(6)],
    [id |-> 9, text |-> "c", x |-> Num(0), y |-> Num(4), width |-> Num(4),
     height |-> NotNum] }
MaxAnnotations == 3
StoredShapes == 2

\* The label files tried: none; files of the current format with up to
\* StoredShapes shapes, with and without left-over "annotations"; files of
\* the earlier format with up to MaxAnnotations annotations.
StoredFiles ==
  {NoFile}
    \cup { [exists |-> TRUE, shapes |-> s, metadata |-> StoredMetadata] :
             s \in {sh \in PageShapes : Len(sh) <= StoredShapes} }
    \cup { [exists |-> TRUE, shapes |-> s, metadata |-> StoredMetadata,
            annotations |-> <<a>>] :
             s \in {sh \in PageShapes : Len(sh) <= 1},
             a \in AnnotationInputs }
    \cup UNION { { [exists |-> TRUE, metadata |-> StoredMetadata,
                    annotations |-> as] :
                     as \in [1 .. n -> AnnotationInputs] } :
                  n \in 0 .. MaxAnnotations }

StoreInit ==
  /\ jobs = << >>
  /\ queue = << >>
  /\ worker = << >>
  /\ req = [r \in ReqIds |-> IdleReq]
  /\ pages = MaxPages
  /\ labels = {}
  /\ artifact \in StoredFiles

\* the file after save_annotations(workspace, item_id, {"shapes": shapes})
\* with the shapes load_annotations returns for it
Resaved(file) ==
  save_annotations(load_annotations(file),
                   [shapes |-> load_annotations(file).shapes,
                    has_metadata |-> FALSE, metadata |-> << >>])

\* payload = load_annotations(workspace, item_id);
\* save_annotations(workspace, item_id, {"shapes": payload["shapes"]})
Resave ==
  /\ artifact' = Resaved(artifact)
  /\ UNCHANGED <<jobs, queue, worker, req, pages, labels>>

StoreNext == Resave

StoreSpec == StoreInit /\ [][StoreNext]_vars

ReocrNext ==
  \/ \E e \in 1 .. MaxEntries : WorkerPickup(e)
  \/ \E e \in 1 .. MaxEntries : ReocrStart(e)
  \/ \E e \in 1 .. MaxEntries : ReocrLoad(e)
  \/ \E e \in 1 .. MaxEntries : ReocrShape(e)
  \/ \E e \in 1 .. MaxEntries : ReocrFlush(e)
  \/ \E e \in 1 .. MaxEntries : ReocrSave(e)
  \/ \E e \in 1 .. MaxEntries : ReocrProgress(e)
  \/ \E e \in 1 .. MaxEntries : ReocrFinished(e)
  \/ \E e \in 1 .. MaxEntries : ReocrFailInner(e)
  \/ \E e \in 1 .. MaxEntries : ReocrFailed(e)
  \/ UserSave

ReocrSpec == ReocrInit /\ [][ReocrNext]_vars


\* =================================================================== claims
\* Steps of the handlers, recognised by what they do to the frame of the
\* connection that serves them.
RetryStarts(r, j) ==
  req[r].pc = "idle" /\ req'[r].kind = "retry" /\ req'[r].id = j
CancelStarts(r, j) ==
  req[r].pc = "idle" /\ req'[r].kind = "cancel" /\ req'[r].id = j
Responded(r) == req[r].pc = "done"

\* The columns of a row other than those of `fields` are left as they were.
OnlyWrites(j, fields) ==
  /\ DOMAIN jobs' = DOMAIN jobs
  /\ \A k \in DOMAIN jobs : k # j => jobs'[k] = jobs[k]
  /\ \A f \in DOMAIN jobs[j] : f \notin fields => jobs'[j][f] = jobs[j][f]

LegalEdges ==
  {<<PENDING, RUNNING>>, <<RUNNING, FINISHED>>, <<RUNNING, FAILED>>,
   <<PENDING, CANCELED>>, <<RUNNING, CANCELED>>}
    \cup (Terminal \X {PENDING})

\* C1: every change of a job's stored status follows an edge of the state
\* machine: pending->running, running->finished, running->failed,
\* pending->canceled, running->canceled, or terminal->pending (retry).
C1_StatusEdges ==
  [][\A j \in DOMAIN jobs :
       jobs'[j].status # jobs[j].status
         => <<jobs[j].status, jobs'[j].status>> \in LegalEdges]_vars

\* C2: in every stored state of every job, progress is 100 exactly when the
\* status is finished.
C2_HundredIffFinished ==
  \A j \in DOMAIN jobs : (jobs[j].progress = 100) <=> (jobs[j].status = FINISHED)

\* percentages asked of update_job_progress: both sides of both limits
PctInputs == {-2, -1, 0, 1, 50, 99, 100, 101, 102}

\* C3: the stored progress of every job is an integer in [0,100], and
\* whatever percentage is requested of update_job_progress for a stored job,
\* what it stores is max(0, min(pct, 100)).
C3_ProgressClamped ==
  \A j \in DOMAIN jobs :
    /\ jobs[j].progress \in 0 .. 100
    /\ \A pct \in PctInputs :
         LET stored == Save(jobs[j], update_job_progress(jobs[j], pct),
                            {"progress"}).progress
         IN /\ stored \in 0 .. 100
            /\ stored = IF pct < 0 THEN 0 ELSE IF pct > 100 THEN 100 ELSE pct
\* a worker has stored the progress of the first of two pages
C3_Witness ==
  \E j \in DOMAIN jobs : jobs[j].progress = 50 /\ jobs[j].status = RUNNING


\* C4: a retry request that finds the job pending or running is answered
\* with an error (400), adds no queue entry and leaves every stored field of
\* every job as it was, in the step that rejects it and afterwards.
C4_RetryRejected ==
  [][\A r \in ReqIds :
       /\ \A j \in DOMAIN jobs :
            RetryStarts(r, j) /\ jobs[j].status \in {PENDING, RUNNING}
              => /\ req'[r].pc = "done" /\ req'[r].resp = 400
                 /\ jobs' = jobs /\ queue' = queue
       /\ Responded(r) /\ req[r].resp = 400 /\ req'[r] # req[r]
            => jobs' = jobs /\ queue' = queue]_vars
\* a retry has been rejected while the job was running
C4_Witness ==
  \E r \in ReqIds :
    /\ req[r].kind = "retry" /\ req[r].pc = "done" /\ req[r].resp = 400
    /\ jobs[req[r].id].status = RUNNING

\* C5: a retry request that finds the job finished, failed or canceled
\* stores status pending, progress 0, an empty error and null started_at and
\* finished_at on the same row; its enqueue, when Redis accepts it, adds
\* exactly one queue entry, for that job; and it then stores that entry's id
\* as rq_job_id, which is not the id the row held before.
C5_RetryResets ==
  [][\A r \in ReqIds :
       /\ \A j \in DOMAIN jobs :
            RetryStarts(r, j) /\ jobs[j].status \in Terminal
              => req'[r].pc = "reset" /\ jobs' = jobs /\ queue' = queue
       /\ req[r].pc = "reset" /\ req'[r] # req[r]
            => LET j == req[r].id
               IN /\ jobs'[j].status = PENDING /\ jobs'[j].progress = 0
                  /\ jobs'[j].error_message = ""
                  /\ jobs'[j].started_at = Null /\ jobs'[j].finished_at = Null
                  /\ OnlyWrites(j, RetryFields)
                  /\ req'[r].id = j
                  /\ req'[r].pc = "save_ref"
                       => /\ Len(queue') = Len(queue) + 1
                          /\ SubSeq(queue', 1, Len(queue)) = queue
                          /\ queue'[Len(queue')].job = j
                          /\ queue'[Len(queue')].status = QUEUED
                          /\ req'[r].rq = Len(queue')
                  /\ req'[r].pc # "save_ref" => queue' = queue
       /\ req[r].pc = "save_ref" /\ req[r].kind = "retry" /\ req'[r] # req[r]
            => LET j == req[r].id
               IN /\ jobs'[j].rq_job_id = req[r].rq
                  /\ jobs'[j].rq_job_id # jobs[j].rq_job_id
                  /\ OnlyWrites(j, {"rq_job_id"})
                  /\ queue' = queue
                  /\ req'[r].resp = 200]_vars
\* a retry has gone through: the row refers to the second entry
C5_Witness ==
  \E r \in ReqIds :
    /\ req[r].kind = "retry" /\ req[r].pc = "done" /\ req[r].resp = 200
    /\ jobs[req[r].id].rq_job_id = 2 /\ jobs[req[r].id].status = PENDING

\* C6: a cancel request that finds the job finished, failed or canceled
\* answers with the job as it is, touches no queue entry and writes no field.
C6_CancelTerminalNoOp ==
  [][\A r \in ReqIds :
       /\ \A j \in DOMAIN jobs :
            CancelStarts(r, j) /\ jobs[j].status \in Terminal
              => /\ req'[r].pc = "done" /\ req'[r].resp = 200
                 /\ req'[r].body = jobs[j].status
                 /\ jobs' = jobs /\ queue' = queue
       /\ Responded(r) /\ req[r].kind = "cancel" /\ req'[r] # req[r]
            => jobs' = jobs /\ queue' = queue]_vars
\* a cancel has answered with a finished job
C6_Witness ==
  \E r \in ReqIds :
    /\ req[r].kind = "cancel" /\ req[r].pc = "done"
    /\ req[r].body = FINISHED /\ jobs[req[r].id].status = FINISHED

\* C7: a cancel request that finds the job pending or running goes on to
\* store status canceled and a finished_at, whatever became of the queue
\* entry (canceled, already started, not found, or no rq_job_id yet), and
\* writes no other field of the row.
C7_CancelStores ==
  [][\A r \in ReqIds :
       /\ \A j \in DOMAIN jobs :
            CancelStarts(r, j) /\ jobs[j].status \in {PENDING, RUNNING}
              => req'[r].pc = "save" /\ jobs' = jobs
       /\ req[r].pc = "save" /\ req'[r] # req[r]
            => LET j == req[r].id
               IN /\ jobs'[j].status = CANCELED
                  /\ jobs'[j].finished_at # Null
                  /\ OnlyWrites(j, {"status", "finished_at"})
                  /\ req'[r].pc = "done" /\ req'[r].resp = 200
                  /\ req'[r].body = CANCELED]_vars
\* a cancel has stored canceled although the entry had already started
C7_Witness ==
  \E r \in ReqIds :
    /\ req[r].kind = "cancel" /\ req[r].pc = "done" /\ req[r].body = CANCELED
    /\ jobs[req[r].id].status = CANCELED
    /\ jobs[req[r].id].rq_job_id # NoRef
    /\ queue[jobs[req[r].id].rq_job_id].status = STARTED


\* C8: a job goes from pending to canceled only when the cancel of its
\* queue entry has succeeded: after a step that takes the stored status from
\* pending to canceled, no entry of the job is queued or being executed.
C8_PendingCanceledOnlyIfDequeued ==
  [][\A j \in DOMAIN jobs :
       jobs[j].status = PENDING /\ jobs'[j].status = CANCELED
         => \A e \in 1 .. Len(queue') :
              queue'[e].job = j => queue'[e].status \notin {QUEUED, STARTED}]_vars

\* C9: a cancel request that finds the job pending or running cancels, in
\* the queue, every entry of the job that has not started (queued or
\* deferred); a canceled entry stays canceled and is never executed; and a
\* job that is canceled, with its entry canceled in the queue, stays canceled
\* until a retry resets it.
C9_QueuedCancelEffective ==
  [][\A j \in DOMAIN jobs :
       /\ \A r \in ReqIds :
            CancelStarts(r, j) /\ jobs[j].status \in {PENDING, RUNNING}
              => \A e \in Entries :
                   queue[e].job = j /\ queue[e].status \in {QUEUED, DEFERRED}
                     => queue'[e].status = CANCELED
       /\ \A e \in Entries :
            queue[e].status = CANCELED
              => queue'[e].status = CANCELED /\ worker'[e] = worker[e]
       /\ ( /\ jobs[j].status = CANCELED /\ jobs[j].rq_job_id \in Entries
            /\ queue[jobs[j].rq_job_id].status = CANCELED
            /\ jobs'[j].status # CANCELED )
            => \E r \in ReqIds :
                 req[r].kind = "retry" /\ req[r].pc = "reset"
                   /\ req'[r] # req[r]]_vars

\* C10: a cancel request that comes after a worker has started the entry
\* does not stop the worker.  No step of a cancel request changes a worker's
\* frame, a label file, an entry that is started, or a column of the row
\* other than status and finished_at; and a worker that is through with the
\* page loop has made one engine call per page and written the label file of
\* every page, whatever the stored status has become in between.
C10_CancelDoesNotStopWorker ==
  [][/\ \A r \in ReqIds :
          req'[r].kind = "cancel" /\ req'[r].pc # "idle" /\ req'[r] # req[r]
            => /\ worker' = worker /\ labels' = labels
               /\ \A e \in Entries :
                    queue[e].status = STARTED => queue'[e] = queue[e]
               /\ OnlyWrites(req'[r].id, {"status", "finished_at"})
     /\ \A e \in 1 .. Len(queue') :
          worker'[e].pc = "mark_finished"
            => /\ queue'[e].status = STARTED
               /\ worker'[e].engine_calls = pages
               /\ labels' = 1 .. pages]_vars
\* a worker is through with every page of a job canceled under it
C10_Witness ==
  \E e \in Entries :
    /\ queue[e].status = STARTED /\ worker[e].pc = "mark_finished"
    /\ worker[e].engine_calls = MaxPages /\ labels = 1 .. MaxPages
    /\ jobs[queue[e].job].status = CANCELED
    /\ jobs[queue[e].job].started_at # Null


\* C11: when a cancel request races with the worker's terminal write, the
\* write that comes last decides the stored status.  The save of a cancel
\* stores canceled whatever the stored status has become, finished included,
\* and the worker's terminal write stores finished (failed) whatever the
\* stored status has become, canceled included.
C11_LastWriteWins ==
  [][/\ \A r \in ReqIds :
          req[r].pc = "save" /\ req'[r] # req[r]
            => jobs'[req[r].id].status = CANCELED
     /\ \A e \in Entries :
          /\ worker[e].pc = "mark_finished" /\ worker'[e] # worker[e]
               => jobs'[queue[e].job].status = FINISHED
          /\ worker[e].pc \in {"mark_failed_inner", "mark_failed"}
               /\ worker'[e] # worker[e]
               => jobs'[queue[e].job].status = FAILED]_vars
\* a cancel has overwritten the finished the worker had stored: the row is
\* canceled with the payload and the progress of the finished run
C11_Witness ==
  /\ Len(queue) = 1 /\ queue[1].status = FINISHED
  /\ jobs[1].status = CANCELED /\ jobs[1].payload.set
  /\ jobs[1].progress = 100


\* The entries of job j that a worker is executing.
Executing(j) ==
  {e \in Entries : queue[e].job = j /\ queue[e].status = STARTED}

\* C12: at any time at most one worker is executing the pipeline for a job,
\* and while the job's stored status is running its progress is written by
\* that worker only (not by retry, not by a worker of an earlier entry).
C12_SingleWriter ==
  [][\A j \in DOMAIN jobs :
       /\ Cardinality(Executing(j)) <= 1
       /\ jobs[j].status = RUNNING /\ jobs'[j].progress # jobs[j].progress
            => \E e \in Executing(j) :
                 worker'[e] # worker[e] /\ Executing(j) = {e}]_vars


\* C13: while the stored status of a job is running, its stored progress
\* never decreases, under any interleaving with cancel and retry requests.
C13_ProgressMonotone ==
  [][\A j \in DOMAIN jobs :
       jobs[j].status = RUNNING /\ jobs'[j].status = RUNNING
         => jobs'[j].progress >= jobs[j].progress]_vars


\* C14: whenever the pipeline ends by raising, the stored status is failed,
\* the stored error message is the text of the error and finished_at is set,
\* and that is written no later than RQ records the entry as failed.
C14_FailureRecorded ==
  [][\A e \in Entries :
       queue[e].status # FAILED /\ queue'[e].status = FAILED
         => LET j == queue[e].job
            IN /\ worker'[e].pc = "raised"
               /\ jobs'[j].status = FAILED
               /\ jobs'[j].error_message = worker[e].exc
               /\ jobs'[j].finished_at # Null]_vars


\* C15: when the enqueue of a submit or of a retry fails, the request is
\* answered with the failure (500), no entry is added for it, and the job is
\* left with an empty rq_job_id, not with the id of an earlier entry.
C15_EnqueueFailure ==
  [][\A r \in ReqIds :
       req[r].pc # "done" /\ req'[r].pc = "done" /\ req'[r].resp = 500
         => /\ req'[r].kind \in {"submit", "retry"}
            /\ queue' = queue /\ worker' = worker
            /\ jobs'[req'[r].id].rq_job_id = NoRef]_vars


\* C16: a submit inserts a new row with status pending, progress 0 and an
\* empty rq_job_id and leaves the other rows alone; its enqueue, when Redis
\* accepts it, adds exactly one entry, of run_record_ocr_job for that job; and
\* it then stores that entry's id as rq_job_id, writing no other column, so
\* that the status, started_at and progress a worker has stored in the
\* meantime stay as they are.
C16_SubmitCreates ==
  [][\A r \in ReqIds :
       /\ req[r].pc = "idle" /\ req'[r].kind = "submit"
            => LET j == Len(jobs) + 1
               IN /\ Len(jobs') = j /\ SubSeq(jobs', 1, Len(jobs)) = jobs
                  /\ jobs'[j].status = PENDING /\ jobs'[j].progress = 0
                  /\ jobs'[j].rq_job_id = NoRef
                  /\ req'[r].id = j
                  /\ req'[r].pc = "save_ref"
                       => /\ Len(queue') = Len(queue) + 1
                          /\ SubSeq(queue', 1, Len(queue)) = queue
                          /\ queue'[Len(queue')] =
                               [job |-> j, func |-> "run_record_ocr_job",
                                status |-> QUEUED]
                          /\ req'[r].rq = Len(queue')
                  /\ req'[r].pc # "save_ref" => queue' = queue
       /\ req[r].pc = "save_ref" /\ req[r].kind = "submit" /\ req'[r] # req[r]
            => LET j == req[r].id
               IN /\ jobs'[j].rq_job_id = req[r].rq
                  /\ OnlyWrites(j, {"rq_job_id"})
                  /\ queue' = queue
                  /\ req'[r].resp = 201]_vars
\* a submit is about to store rq_job_id on a row that a worker has already
\* marked running and given the progress of the first page
C16_Witness ==
  \E r \in ReqIds :
    /\ req[r].kind = "submit" /\ req[r].pc = "save_ref"
    /\ jobs[req[r].id].status = RUNNING /\ jobs[req[r].id].progress = 50
    /\ jobs[req[r].id].started_at # Null


\* The step is the save of a retry's reset.
RetrySaves ==
  \E r \in ReqIds :
    req[r].kind = "retry" /\ req[r].pc = "reset" /\ req'[r] # req[r]

\* C17: started_at is set once: after it has become non-null no step of a
\* worker or of a cancel changes it; only the reset of a retry does, and it
\* clears it.
C17_StartedAtOnce ==
  [][\A j \in DOMAIN jobs :
       jobs[j].started_at # Null /\ jobs'[j].started_at # jobs[j].started_at
         => RetrySaves /\ jobs'[j].started_at = Null]_vars


\* C18: finished_at is set once per attempt: after a terminal transition
\* has set it no later step writes another value (not a second failure
\* marking, not a worker's terminal write after a cancel, not a cancel after
\* the worker's terminal write); only the reset of a retry changes it, and it
\* clears it.
C18_FinishedAtOnce ==
  [][\A j \in DOMAIN jobs :
       jobs[j].finished_at # Null /\ jobs'[j].finished_at # jobs[j].finished_at
         => RetrySaves /\ jobs'[j].finished_at = Null]_vars


\* C19: in every reachable state a job with a non-empty error message has
\* status failed.
C19_ErrorOnlyWhenFailed ==
  \A j \in DOMAIN jobs : jobs[j].error_message # "" => jobs[j].status = FAILED


\* C20: every entry enqueued for a job by a submit or a retry is, unless it
\* is canceled in the queue, eventually executed to its end, and the job has
\* a terminal status when it ends.
C20_EventuallyTerminal ==
  \A e \in 1 .. MaxEntries :
    (e \in Entries /\ queue[e].status = QUEUED)
      ~> (/\ e \in Entries
          /\ \/ queue[e].status = CANCELED
             \/ /\ queue[e].status \in {FINISHED, FAILED}
                /\ jobs[queue[e].job].status \in Terminal)
\* the entry of a retry has been executed to its end
C20_Witness ==
  /\ Len(queue) = 2 /\ queue[2].status = FINISHED
  /\ jobs[queue[2].job].status = FINISHED


\* ------------------------------------------- claims: box-level pipeline
\* The worker function of entry e has made its last engine call.
Flushed(e) ==
  /\ e \in Entries /\ queue[e].func = "run_item_reocr_job"
  /\ worker[e].pc \in {"save", "progress", "mark_finished", "returned"}

\* The result to keep of the answers to the four rotations: of those that
\* carry a text, the one of highest confidence (a result without a score
\* counts as -1.0), the earliest of them when several have it; 0 when none
\* carries a text.
HighestConfidence(results) ==
  LET carrying == {i \in DOMAIN results : results[i].rec_text # ""}
      Conf(i) == IF results[i].scored THEN results[i].rec_score ELSE -100
  IN IF carrying = {} THEN 0
     ELSE CHOOSE i \in carrying :
            /\ \A o \in carrying : Conf(i) >= Conf(o)
            /\ \A o \in carrying : Conf(o) = Conf(i) => i <= o

\* C21: once the last batch is flushed, best_results holds for every
\* surviving shape the text and the confidence of the highest-confidence
\* result among its 4 rotations that carries a text, the earliest rotation
\* on equal confidence, and holds nothing for a shape none of whose results
\* carries a text.
C21_BestRotation ==
  \A e \in Entries : Flushed(e) =>
    \A k \in DOMAIN worker[e].shape_entries :
      LET en == worker[e].shape_entries[k]
          results == PageText(en.bbox)
          i == HighestConfidence(results)
      IN IF i = 0 THEN en.index \notin DOMAIN worker[e].best_results
         ELSE /\ en.index \in DOMAIN worker[e].best_results
              /\ worker[e].best_results[en.index] =
                   [text |-> results[i].rec_text,
                    score |-> IF results[i].scored
                              THEN results[i].rec_score ELSE -100]


\* C22: a run over n surviving shapes that gets to the end of its engine
\* calls has made exactly ceil(4n/16) of them, every one but the last with 16
\* inputs and the last with 4n mod 16 inputs when that is not zero; and at
\* no time has a call been made with 0 or with more than 16 inputs.
C22_BatchCalls ==
  \A e \in Entries : queue[e].func = "run_item_reocr_job" =>
    LET calls == worker[e].calls
        inputs == 4 * Len(worker[e].shape_entries)
    IN /\ \A c \in DOMAIN calls : calls[c] \in 1 .. 16
       /\ Flushed(e) =>
            /\ Len(calls) = (inputs + 15) \div 16
            /\ \A c \in 1 .. Len(calls) - 1 : calls[c] = 16
            /\ Len(calls) > 0 =>
                 calls[Len(calls)] =
                   IF inputs % 16 # 0 THEN inputs % 16 ELSE 16
\* 9 shapes have been recognised in calls of 16, 16 and 4 inputs
C22_Witness ==
  \E e \in Entries :
    /\ Flushed(e) /\ Len(worker[e].shape_entries) = 9
    /\ worker[e].calls = <<16, 16, 4>>


\* The step in which the worker function of entry e writes the label file.
ReocrSaves(e) ==
  /\ e \in Entries /\ queue[e].func = "run_item_reocr_job"
  /\ worker[e].pc = "save" /\ worker'[e].pc = "progress"

\* C23: in the label file a box-level job writes, every surviving shape for
\* which the engine returned a text in at least one rotation has the selected
\* text, and the selected score as its confidence when that score is not
\* negative (its prior confidence otherwise); every other shape has the text
\* and the confidence it was loaded with.
C23_TextOverwritten ==
  [][\A e \in Entries : ReocrSaves(e) =>
       \A i \in DOMAIN worker[e].shapes_raw :
         LET prior == worker[e].shapes_raw[i]
             saved == artifact'.shapes[i]
             ens == {en \in {worker[e].shape_entries[k] :
                               k \in DOMAIN worker[e].shape_entries} :
                       en.index = i}
             results == PageText((CHOOSE en \in ens : TRUE).bbox)
             r == HighestConfidence(results)
         IN IF ens # {} /\ r # 0
            THEN /\ saved.text = results[r].rec_text
                 /\ saved.confidence =
                      IF results[r].scored /\ results[r].rec_score >= 0
                      THEN results[r].rec_score ELSE prior.confidence
            ELSE /\ saved.text = prior.text
                 /\ saved.confidence = prior.confidence]_vars


\* The bounding box of a list of points as the specification describes it:
\* the floor of the least and the ceiling of the greatest coordinate, each
\* brought into the image.
Clamp(v, lo, hi) == Max(lo, Min(v, hi))
ClampedBox(points) ==
  LET xs == {points[i][1] : i \in DOMAIN points}
      ys == {points[i][2] : i \in DOMAIN points}
      Least(set) == CHOOSE v \in set : \A o \in set : v <= o
      Greatest(set) == CHOOSE v \in set : \A o \in set : v >= o
  IN [left |-> Clamp(Floor(Least(xs)), 0, ImageWidth),
      top |-> Clamp(Floor(Least(ys)), 0, ImageHeight),
      right |-> Clamp(Ceil(Greatest(xs)), 0, ImageWidth),
      bottom |-> Clamp(Ceil(Greatest(ys)), 0, ImageHeight)]
ValidPoints(shape) ==
  SelectSeq(shape.points, LAMBDA point : Len(point) >= 2)
TooSmall(shape) ==
  LET box == ClampedBox(ValidPoints(shape))
  IN box.right - box.left < 2 \/ box.bottom - box.top < 2
Survives(shape) == ValidPoints(shape) # << >> /\ ~TooSmall(shape)

\* The worker function of entry e has returned.
Returned(e) ==
  /\ e \in Entries /\ queue[e].func = "run_item_reocr_job"
  /\ worker[e].pc = "returned"

\* C24: when a box-level job has returned, its stored payload has
\* recognized_boxes equal to the number of shapes whose text it overwrote and
\* total_boxes equal to the number of shapes with valid points and a valid
\* box, recognized_boxes <= total_boxes, and the job is stored finished with
\* progress 100.
C24_PayloadCounts ==
  \A e \in Entries : Returned(e) =>
    LET job == jobs[queue[e].job]
        w == worker[e]
    IN /\ job.payload.set
       /\ job.payload.recognized_boxes =
            Cardinality({i \in DOMAIN w.shapes :
                           w.shapes[i].text # w.shapes_raw[i].text})
       /\ job.payload.total_boxes =
            Cardinality({i \in DOMAIN w.shapes_raw : Survives(w.shapes_raw[i])})
       /\ job.payload.recognized_boxes <= job.payload.total_boxes
       /\ job.status = FINISHED /\ job.progress = 100
\* the example of the claim: shape A read at 0.9 in the first rotation,
\* shape B without a reading
C24_Witness ==
  \E e \in Entries :
    /\ Returned(e) /\ Len(worker[e].shapes) = 2
    /\ worker[e].shapes[1].text = "TA" /\ worker[e].shapes[1].confidence = 90
    /\ worker[e].shapes[2] = worker[e].shapes_raw[2]
    /\ Len(worker[e].shape_entries) = 2
    /\ jobs[queue[e].job].payload.recognized_boxes = 1
    /\ jobs[queue[e].job].payload.total_boxes = 2


\* The worker function of entry e has measured the shapes it loaded.
Measured(e) ==
  /\ e \in Entries /\ queue[e].func = "run_item_reocr_job"
  /\ worker[e].shapes_raw # << >>

\* C25: a shape whose box (floor of the least, ceiling of the greatest
\* coordinate, brought into the image) is less than 2 wide or high gets no
\* entry, no engine input and no result, the job does not fail on it (after
\* loading it fails only for want of a valid box or on an engine error), and
\* every shape with a valid box has its entry.
C25_SmallBoxSkipped ==
  \A e \in Entries : Measured(e) =>
    LET w == worker[e]
        entered == {w.shape_entries[k].index : k \in DOMAIN w.shape_entries}
    IN /\ \A i \in DOMAIN w.shapes_raw :
            ValidPoints(w.shapes_raw[i]) # << >> /\ TooSmall(w.shapes_raw[i])
              => /\ i \notin entered
                 /\ \A b \in DOMAIN w.batch_meta : w.batch_meta[b][1] # i
                 /\ i \notin DOMAIN w.best_results
       /\ \A i \in DOMAIN w.shapes_raw : Survives(w.shapes_raw[i]) => i \in entered
       /\ w.pc \in {"mark_failed", "raised"}
            => w.exc \in EngineErrors \cup {"no valid box to recognise"}


\* The worker function of entry e has read the label file (get_workspace and
\* get_item have not raised) and has found nothing to recognise in it: no
\* shape, or no shape with valid points and a valid box.
NothingToRecognise(e) ==
  /\ e \in Entries /\ queue[e].func = "run_item_reocr_job"
  /\ worker[e].pc \notin {"idle", "get", "load", "mark_failed_inner"}
  /\ worker[e].message = ""
  /\ \A i \in DOMAIN worker[e].shapes_raw : ~Survives(worker[e].shapes_raw[i])

\* C26: a box-level job that finds no shape, or no shape with valid points
\* and a valid box, makes no engine call, goes nowhere but to its failure
\* handler, is never stored finished, and is stored failed with a non-empty
\* error message once the function has ended.
C26_NothingToRecogniseFails ==
  \A e \in Entries : NothingToRecognise(e) =>
    /\ worker[e].calls = << >>
    /\ worker[e].pc \in {"mark_failed", "raised"}
    /\ jobs[queue[e].job].status # FINISHED
    /\ worker[e].pc = "raised"
         => /\ jobs[queue[e].job].status = FAILED
            /\ jobs[queue[e].job].error_message # ""
            /\ queue[e].status = FAILED
\* a page whose only shapes are too small has failed its job
C26_Witness ==
  \E e \in Entries :
    /\ NothingToRecognise(e) /\ worker[e].pc = "raised"
    /\ worker[e].shapes_raw # << >>
    /\ jobs[queue[e].job].error_message = "no valid box to recognise"


\* C27: the stored progress of a box-level job is 10 when the shapes have
\* been measured and none is processed yet, min(10 + floor(k/n*80), 90)
\* after the k-th of n surviving shapes, at most 90 as long as the label
\* file has not been saved, and 100 only once the file is saved and the job
\* is stored finished.
C27_ProgressSteps ==
  \A e \in Entries : queue[e].func = "run_item_reocr_job" =>
    LET w == worker[e]
        job == jobs[queue[e].job]
        n == Len(w.shape_entries)
    IN /\ w.pc = "shape" /\ w.processed = 0 => job.progress = 10
       /\ w.pc \in {"shape", "flush"} /\ w.processed >= 1
            => job.progress = Min(10 + (w.processed * 80) \div n, 90)
       /\ w.pc \in {"idle", "get", "load", "shape", "flush", "save"}
            => job.progress <= 90
       /\ job.progress = 100 => w.pc = "returned" /\ job.status = FINISHED


\* C28: a box-level job calls save_annotations at most once; it has called
\* it once when it returns, and then after the last of its ceil(4n/16)
\* engine calls; it has not called it when it is in or past its failure
\* handler; and no other step of the job changes the label file.
C28_SavedOnce ==
  [][\A e \in Entries : queue[e].func = "run_item_reocr_job" =>
       LET w == worker'[e]
       IN /\ w.saves <= 1
          /\ w.pc = "returned" => w.saves = 1
          /\ w.pc \in {"mark_failed_inner", "mark_failed", "raised"}
               => w.saves = 0
          /\ w.saves = 1
               => Len(w.calls) = (4 * Len(w.shape_entries) + 15) \div 16
          /\ worker'[e] # worker[e] /\ artifact' # artifact
               => ReocrSaves(e) /\ w.saves = worker[e].saves + 1]_vars
\* the engine has raised in the second batch and the label file is as it was
C28_Witness ==
  \E e \in Entries :
    /\ queue[e].func = "run_item_reocr_job" /\ worker[e].pc = "raised"
    /\ Len(worker[e].calls) = 2 /\ worker[e].saves = 0
    /\ artifact.shapes = worker[e].shapes_raw


\* C29: the save of a box-level job takes no account of what the label file
\* holds by then: the shape list it writes is the list it loaded with its own
\* results applied, so that a shape it has not recognised is written as
\* loaded even when the file holds another text for it since.  (In
\* C29_Witness such a write has been lost.)
C29_SaveClobbers ==
  [][\A e \in Entries : ReocrSaves(e) =>
       /\ artifact'.shapes =
            ApplyResults(worker[e].shapes_raw, worker[e].best_results)
       /\ \A i \in DOMAIN worker[e].shapes_raw :
            i \notin DOMAIN worker[e].best_results
              => artifact'.shapes[i] = worker[e].shapes_raw[i]]_vars
\* The job loaded the first shape with its old text; the editor has since
\* stored a corrected text for it with new metadata (the metadata are in the
\* file); the job has saved, and the file has the old text again.
C29_Witness ==
  \E e \in Entries :
    /\ queue[e].func = "run_item_reocr_job" /\ worker[e].pc = "progress"
    /\ worker[e].shapes_raw # << >>
    /\ worker[e].shapes_raw[1].text = "old"
    /\ artifact.metadata = _normalize_metadata_values(UserMetadata)
    /\ artifact.shapes[1].text = "old"


\* The shape list written keeps the length and the order of the list loaded
\* and, of every shape, all but text and confidence; the shapes without a
\* result are written as loaded.
ShapesKept(e) ==
  /\ Len(artifact'.shapes) = Len(worker[e].shapes_raw)
  /\ \A i \in DOMAIN worker[e].shapes_raw :
       /\ \A f \in DOMAIN worker[e].shapes_raw[i] \ {"text", "confidence"} :
            artifact'.shapes[i][f] = worker[e].shapes_raw[i][f]
       /\ DOMAIN artifact'.shapes[i] = DOMAIN worker[e].shapes_raw[i]
       /\ i \notin DOMAIN worker[e].best_results
            => artifact'.shapes[i] = worker[e].shapes_raw[i]

\* C30: the save of a box-level job keeps the length and the order of the
\* shape list and, of every shape, the points and every field but text and
\* confidence; skipped and unrecognised shapes are written as loaded; and the
\* metadata stored in the label file are the same after the save as before.
C30_FramePreserved ==
  [][\A e \in Entries : ReocrSaves(e) =>
       ShapesKept(e) /\ artifact'.metadata = artifact.metadata]_vars

\* C30 as amended: the same for the shapes; the metadata written are those
\* save_annotations read from the label file when it was called.
C30_FramePreservedAsRead ==
  [][\A e \in Entries : ReocrSaves(e) =>
       ShapesKept(e) /\ artifact'.metadata = worker[e].existing.metadata]_vars
\* a job has saved a page of three shapes, the first with a new text, the
\* second as loaded, under the metadata the file had
C30_Witness ==
  \E e \in Entries :
    /\ queue[e].func = "run_item_reocr_job" /\ worker[e].pc = "progress"
    /\ Len(artifact.shapes) = 3
    /\ artifact.shapes[1].text = "TA"
    /\ artifact.shapes[1].points = worker[e].shapes_raw[1].points
    /\ artifact.shapes[2] = worker[e].shapes_raw[2]
    /\ artifact.metadata = StoredMetadata


\* ------------------------------------------- claims: full-page pipeline
\* The step of run_record_ocr_job that processes a page: the engine call has
\* returned, the label file is written and the progress stored.
PageDone(e) ==
  worker[e].pc = "run_ocr" /\ worker'[e].index = worker[e].index + 1

\* C31: in a full-page job over a record of n >= 1 pages the progress stored
\* after the k-th page (engine call returned, label file written) is
\* floor(k/n*100), which is 100 exactly after the last page; the pages are
\* processed one at a time in order, each with one engine call.
C31_PageProgress ==
  [][\A e \in Entries : PageDone(e) =>
       LET k == worker'[e].index
           n == worker[e].items
           j == queue[e].job
       IN /\ jobs'[j].progress = (k * 100) \div n
          /\ (jobs'[j].progress = 100) <=> (k = n)
          /\ labels = 1 .. (k - 1) /\ labels' = 1 .. k
          /\ worker'[e].engine_calls = k]_vars


\* the detections the engine returns for pages 1 .. n together
RECURSIVE TotalDetections(_)
TotalDetections(n) ==
  IF n = 0 THEN 0 ELSE TotalDetections(n - 1) + Detections(n)

\* C32: when a full-page job succeeds, total_detections of its payload is
\* the sum over the pages of the detections the engine returned and pages
\* is the number of pages processed; over a record without pages it finishes
\* with pages 0, total_detections 0 and progress 100.
C32_PayloadTotals ==
  [][\A e \in Entries :
       worker[e].pc = "mark_finished" /\ worker'[e].pc = "returned" =>
         LET job == jobs'[queue[e].job]
         IN /\ job.status = FINISHED /\ job.progress = 100
            /\ job.payload.set
            /\ job.payload.pages = worker[e].index
            /\ worker[e].index = pages /\ labels = 1 .. pages
            /\ job.payload.total_detections = TotalDetections(pages)
            /\ pages = 0 => /\ job.payload.pages = 0
                            /\ job.payload.total_detections = 0]_vars
\* a job over three pages (0, 1 and 2 detections) has finished
C32_Witness ==
  /\ pages = 3
  /\ jobs[1].status = FINISHED
  /\ jobs[1].payload = [set |-> TRUE, pages |-> 3, total_detections |-> 3]


\* The engine call for the next page has been made and the page has no
\* label file: the call raised.
PageFails(e) ==
  /\ worker[e].pc = "run_ocr"
  /\ worker'[e].engine_calls = worker[e].engine_calls + 1
  /\ worker[e].index + 1 \notin labels'

\* The run of entry e is in its handler after the engine call of a page
\* raised (not after get_workspace raised, which is before any call).
PageFailed(e) ==
  worker[e].pc = "mark_failed" /\ worker[e].engine_calls = worker[e].index + 1

\* C33: when the processing of page k of a full-page job fails (its engine
\* call raises), no later page is processed; the run stores the
\* status failed with the text of the error and finished_at and ends by
\* raising, so the job is failed and not finished; the label files of the
\* pages before k are left as written.
C33_FailFast ==
  [][\A e \in Entries :
       LET j == queue[e].job
       IN /\ PageFails(e) =>
               /\ worker'[e].pc = "mark_failed"
               /\ worker'[e].index = worker[e].index
               /\ labels' = labels /\ jobs' = jobs
          /\ PageFailed(e) =>
               /\ worker'[e].pc = "raised" /\ queue'[e].status = FAILED
               /\ jobs'[j].status = FAILED
               /\ jobs'[j].error_message = worker[e].exc
               /\ jobs'[j].finished_at # Null
               /\ ~jobs'[j].payload.set
               /\ labels' = labels /\ labels = 1 .. worker[e].index
               /\ worker[e].index < pages]_vars
\* page 3 of 5 has failed: the job is failed with the error text, pages 1
\* and 2 have their label files, pages 3 to 5 have none
C33_Witness ==
  /\ pages = 5 /\ labels = {1, 2}
  /\ queue[1].status = FAILED /\ worker[1].pc = "raised"
  /\ jobs[1].status = FAILED /\ jobs[1].error_message = "engine error"


\* ------------------------------------------------- claims: the job row
\* the columns that say what a job is
Identity == {"workspace_slug", "record_slug", "record_title", "job_type"}

\* C34: no step of a submit, a worker, a cancel or a retry changes the
\* workspace_slug, record_slug, record_title or job_type of a stored job or
\* removes a job from the table (a job is known by its id, its place in the
\* table, which it keeps).
C34_IdentityKept ==
  [][\A j \in DOMAIN jobs :
       /\ j \in DOMAIN jobs'
       /\ \A f \in Identity : jobs'[j][f] = jobs[j][f]]_vars
\* a job submitted with a job_type of its own has run, has been canceled or
\* has ended, has been retried and has run to its end once more
C34_Witness ==
  /\ Len(jobs) = 1 /\ Len(queue) = 2
  /\ jobs[1].job_type = "reocr"
  /\ jobs[1].status = FINISHED
  /\ jobs[1].rq_job_id = 2
  /\ queue[2].status = FINISHED


\* the worker function a job_type names: the full-page pipeline for the
\* default type, the box-level pipeline for the other
PipelineNamed(job_type) ==
  IF job_type = "ocr" THEN "run_record_ocr_job" ELSE "run_item_reocr_job"

\* C36: every queue entry made by a submit or by a retry calls the pipeline
\* that the job_type of its job names (a box-level job is enqueued and
\* retried as a box-level job, a full-page job as a full-page job).
C36_PipelineOfType ==
  \A e \in Entries :
    queue[e].func = PipelineNamed(jobs[queue[e].job].job_type)


\* ------------------------------------------- claims: annotation store
\* C35: saving the shapes just loaded for a page is idempotent on content:
\* a load after the save returns the list the first load returned (same
\* shapes in the same order, same texts), and a second such save leaves
\* every persisted shape, its text included, as the first wrote it.
C35_ResaveIdempotent ==
  [][LET loaded == load_annotations(artifact).shapes
     IN /\ load_annotations(artifact').shapes = loaded
        /\ artifact'.shapes = loaded
        /\ Resaved(artifact').shapes = artifact'.shapes
        /\ load_annotations(artifact').metadata =
             load_annotations(artifact).metadata]_vars
\* a file of the earlier format (three annotations, the third left out for
\* its height) has been saved as loaded: it holds the two shapes made of
\* the first two annotations, with their texts
C35_Witness ==
  /\ artifact.exists /\ "annotations" \notin DOMAIN artifact
  /\ Len(artifact.shapes) = 2
  /\ artifact.shapes[1].id = 7 /\ artifact.shapes[1].text = "a"
  /\ artifact.shapes[2].id = DefaultAnnotationId(1)
  /\ artifact.shapes[2].text = ""
  /\ artifact.shapes[2].label = DEFAULT_SHAPE_LABEL


\* ------------------------------------------- claims: concurrent requests
\* Request r is a retry of job j that has been accepted and has made its
\* queue entry (whose id it is about to store in rq_job_id).
RetryEnqueued(r, j) ==
  req[r].kind = "retry" /\ req[r].id = j /\ req[r].pc = "save_ref"

\* C37: of two retry requests for the same terminal job that run at the
\* same time at most one is accepted, so that the job gets one new queue
\* entry and rq_job_id names it: there are never two such requests that
\* have both made an entry for the job.
C37_OneRetryAccepted ==
  \A j \in DOMAIN jobs : \A r1, r2 \in ReqIds :
    RetryEnqueued(r1, j) /\ RetryEnqueued(r2, j) => r1 = r2


\* C38: in every reachable state, whatever the interleaving of workers,
\* cancels and retries, a job whose stored status is finished, failed or
\* canceled has a finished_at that is not null.
C38_TerminalHasFinishedAt ==
  \A j \in DOMAIN jobs :
    jobs[j].status \in Terminal => jobs[j].finished_at # Null
\* a job that was canceled while its worker ran and was then stored as
\* finished by that worker, with its finished_at
C38_Witness ==
  /\ Len(jobs) = 1 /\ Len(queue) = 1
  /\ jobs[1].status = FINISHED /\ jobs[1].finished_at # Null
  /\ queue[1].status = FINISHED
  /\ \E r \in ReqIds :
       req[r].kind = "cancel" /\ req[r].pc = "done" /\ req[r].body = CANCELED


\* C39: in every reachable state a job whose stored status is pending or
\* running has a null finished_at; a worker that picks a job up never leaves
\* it running with the finished_at of an earlier cancel.
C39_ActiveHasNoFinishedAt ==
  \A j \in DOMAIN jobs :
    jobs[j].status \in {PENDING, RUNNING} => jobs[j].finished_at = Null


\* ------------------------------------------------ claims: engine batches
\* The inputs of a run over shape_entries in shape-then-rotation order: the
\* crop of every entry, in the order of the entries, turned by every one of
\* rotations, in their order.
VariantInputs(shape_entries) ==
  [k \in 1 .. Len(rotations) * Len(shape_entries) |->
     _prepare_rec_input(
       shape_entries[(k - 1) \div Len(rotations) + 1].bbox,
       ((k - 1) % Len(rotations)) + 1)]

\* the (shape_index, rotation_idx) of the same variants
VariantMeta(shape_entries) ==
  [k \in 1 .. Len(rotations) * Len(shape_entries) |->
     << shape_entries[(k - 1) \div Len(rotations) + 1].index,
        ((k - 1) % Len(rotations)) + 1 >>]

\* C40: in a box-level job batch_inputs and batch_meta have the same length
\* at all times; the inputs handed to the engine so far are a prefix of the
\* variants in shape-then-rotation order, and with the pending ones they are
\* the variants of the shapes processed so far; batch_meta names, position
\* by position, the shapes of the pending inputs; the results kept are those
\* of attributing the i-th result of all calls to the shape of the i-th
\* variant, so that the text kept for a shape is the engine's answer to a
\* crop of that shape; and once the last flush is made both lists are empty and every
\* variant has been handed to the engine exactly once.
C40_BatchAttribution ==
  \A e \in Entries : queue[e].func = "run_item_reocr_job" =>
    LET w == worker[e]
        inputs == VariantInputs(w.shape_entries)
        meta == VariantMeta(w.shape_entries)
        done == Len(rotations) * w.processed
    IN /\ Len(w.batch_inputs) = Len(w.batch_meta)
       /\ Len(w.passed) <= Len(inputs)
       /\ w.passed = SubSeq(inputs, 1, Len(w.passed))
       /\ w.pc \in {"shape", "flush"} \/ Flushed(e) =>
            /\ w.passed \o w.batch_inputs = SubSeq(inputs, 1, done)
            /\ w.batch_meta = SubSeq(meta, Len(w.passed) + 1, done)
            /\ w.best_results =
                 FlushResults(SubSeq(meta, 1, Len(w.passed)),
                              predict(w.passed), << >>)
            /\ \A i \in DOMAIN w.best_results :
                 \E k \in DOMAIN w.passed :
                   /\ meta[k][1] = i
                   /\ w.best_results[i].text =
                        PageText(w.passed[k][1])[w.passed[k][2]].rec_text
       /\ Flushed(e) =>
            /\ w.batch_inputs = << >> /\ w.batch_meta = << >>
            /\ w.passed = inputs
\* five shapes are processed: the four rotations of the first four have gone
\* to the engine in one call, those of the fifth are pending
C40_Witness ==
  \E e \in Entries :
    /\ queue[e].func = "run_item_reocr_job"
    /\ worker[e].pc = "shape" /\ worker[e].processed = 5
    /\ Len(worker[e].passed) = BATCH_LIMIT
    /\ Len(worker[e].batch_inputs) = 4
    /\ worker[e].batch_meta = <<<<5, 1>>, <<5, 2>>, <<5, 3>>, <<5, 4>>>>
    /\ DOMAIN worker[e].best_results # {}

====
